---- MODULE Spec2Model ----
(***************************************************************************)
(* A model of the bin-proto / protocol runtime codec engine: the byte      *)
(* level read/write contract, the per-aggregate hints, length-prefixed      *)
(* sequences, tagged unions, the alignment decorator and the middleware     *)
(* pipeline.  A stream is a sequence of bytes (every codec modelled here    *)
(* is byte aligned); a reader is a buffer and a position in it.             *)
(***************************************************************************)
EXTENDS Integers, Sequences, FiniteSets, TLC

VARIABLES
    ty,          \* the type of the top-level value being written / read
    value,       \* the value handed to bytes() (origin "value")
    byte_order,  \* Settings.byte_order
    origin,      \* "value": the wire is produced by bytes(); "raw": it comes from a peer
    phase,       \* "write", "written" (or "wfail"), "read", "done"
    wire,        \* the writer's data / the reader's buffer
    hints,       \* the Hints of the top-level aggregate pass
    acc,         \* fields of the top-level aggregate read so far
    rpos,        \* the reader's position, in bytes
    result,      \* the outcome of the last pass
    dstate,      \* discriminant resolution: "Unresolved", "TagKnown", "VariantResolved", "Failed"
    tag,         \* the raw discriminant read and the variant it resolved to
    mw           \* the middleware pipeline run

vars == <<ty, value, byte_order, origin, phase, wire, hints, acc, rpos, result, dstate, tag, mw>>

----------------------------------------------------------------------------
(* Bounds of the model.                                                    *)

\* longest sequence / string value enumerated
MaxLen == 2
\* longest raw buffer received from a peer
MaxWire == 4

\* element values enumerated for u8 (0, 1, 2, 4: a count field can agree or
\* disagree with a payload; 0xed, 0xf1: the bytes of the enum tests), u16
\* and u32 (258 = 0x0102 tells the byte orders apart)
U8Vals == {0, 1, 2, 4, 237, 241}
U16Vals == {1, 258}
U32Vals == {0, 258, 16909060}
\* bytes of a raw buffer (a 4-byte integer read from it stays below 2^31,
\* the largest integer TLC computes with)
RawBytes == {0, 1, 2, 127}
\* bytes of enumerated strings: 'a', 'b'
StrBytes == {97, 98}

ByteOrders == {"BigEndian", "LittleEndian"}

----------------------------------------------------------------------------
(* Results.                                                                *)

\* Result<T, Error> of a read: the value and the reader's new position
ROk(v, p) == [ok |-> TRUE, val |-> v, pos |-> p, err |-> "none", info |-> 0]
RErr(e, i) == [ok |-> FALSE, val |-> <<>>, pos |-> 0, err |-> e, info |-> i]
\* Result<(), Error> of a write: the bytes appended to the writer
WOk(b) == [ok |-> TRUE, bytes |-> b, err |-> "none"]
WErr(e) == [ok |-> FALSE, bytes |-> <<>>, err |-> e]

\* outcomes that are not an Err returned to the caller
Panic == "panic"
Hang == "hang"

NoResult == [ok |-> FALSE, val |-> <<>>, pos |-> 0, err |-> "pending", info |-> 0]

----------------------------------------------------------------------------
(* Bit Stream I/O and the integer primitives.                              *)

Rev(s) == [i \in 1..Len(s) |-> s[Len(s) + 1 - i]]

BytesLE(v, n) == [i \in 1..n |-> (v \div (256 ^ (i - 1))) % 256]

\* an unsigned integer of n bytes in the settings' byte order
IntBytes(v, n, ord) == IF ord = "LittleEndian" THEN BytesLE(v, n) ELSE Rev(BytesLE(v, n))

RECURSIVE SumLE(_, _)
SumLE(s, i) == IF i > Len(s) THEN 0 ELSE s[i] * (256 ^ (i - 1)) + SumLE(s, i + 1)

IntOf(s, ord) == IF ord = "LittleEndian" THEN SumLE(s, 1) ELSE SumLE(Rev(s), 1)

\* reading n bytes: an Io error (unexpected end of input) when fewer are left
ReadInt(n, buf, pos, ord) ==
    IF pos + n > Len(buf) THEN RErr("Io", 0)
    ELSE ROk(IntOf(SubSeq(buf, pos + 1, pos + n), ord), pos + n)

Zeros(n) == [i \in 1..n |-> 0]

----------------------------------------------------------------------------
(* Type descriptors.                                                       *)

U8 == [k |-> "u8"]
U16 == [k |-> "u16"]
U32 == [k |-> "u32"]
Bool == [k |-> "bool"]
VecOf(e) == [k |-> "vec", e |-> e]
\* types::Vec<S, T>: a sequence whose own count prefix is of the integer
\* type S (s.w bytes wide, signed or not)
PrefixType(w, signed) == [w |-> w, signed |-> signed]
VecS(s, e) == [k |-> "vecs", s |-> s, e |-> e]
OptOf(e) == [k |-> "opt", e |-> e]
ArrOf(n, e) == [k |-> "arr", n |-> n, e |-> e]
\* it: the order the map's iterator yields its keys in ("asc": BTreeMap;
\* "desc": one of the orders a HashMap may yield)
MapOf(kt, vt, it) == [k |-> "map", kt |-> kt, vt |-> vt, it |-> it]
Str == [k |-> "str"]
RangeOf(e) == [k |-> "range", e |-> e]
RcOf(e) == [k |-> "rc", e |-> e]
AlignedOf(e, u) == [k |-> "aligned", e |-> e, u |-> u]
\* named: a struct with named fields; otherwise a tuple struct
StructOf(named, fs) == [k |-> "struct", named |-> named, fields |-> fs]
\* dw: the discriminant's width in bytes
EnumOf(dw, vs) == [k |-> "enum", dw |-> dw, variants |-> vs]
\* disc: the explicit discriminant of a variant, or -1
Variant(name, disc, named, fs) == [name |-> name, disc |-> disc, named |-> named, fields |-> fs]

\* a field of an aggregate; lp is its length_prefix attribute, bits its
\* declared bit width (0: none)
NoAttr == [has |-> FALSE, kind |-> "None", src |-> ""]
LengthPrefix(kind, src) == [has |-> TRUE, kind |-> kind, src |-> src]
Field(name, t, lp) == [name |-> name, ty |-> t, lp |-> lp, bits |-> 0]
\* a field with #[protocol(bits = n)]
Bitfield(name, t, n) == [name |-> name, ty |-> t, lp |-> NoAttr, bits |-> n]

IsInt(t) == t.k \in {"u8", "u16", "u32"}
Width(t) == IF t.k = "u8" THEN 1 ELSE IF t.k = "u16" THEN 2 ELSE 4
\* the bytes an integer takes under the hints' field_width: the declared
\* bits of a bit-field (whole bytes in the byte-level model), else its width
WidthIn(t, field_width) == IF field_width = 0 THEN Width(t) ELSE field_width \div 8

----------------------------------------------------------------------------
(* Hints.                                                                  *)

NoLen == [kind |-> "None", length |-> 0]
FieldLength(kind, length) == [kind |-> kind, length |-> length]

\* field indexes a length may be recorded for
FieldIdx == 0..3

\* Hints::default()
DefaultHints == [field_width |-> 0, idx |-> -1, known |-> [i \in FieldIdx |-> NoLen]]

begin_fields(h) == [h EXCEPT !.idx = 0]

\* a cursor that skips a field
next_field_twice(h) == [h EXCEPT !.idx = h.idx + 2]

next_field(h) == [h EXCEPT !.idx = h.idx + 1]

set_field_length(h, index, length, kind) ==
    [h EXCEPT !.known = [i \in FieldIdx |->
        IF i = index THEN FieldLength(kind, length) ELSE h.known[i]]]

current_field_length(h) ==
    IF h.idx \in FieldIdx THEN h.known[h.idx] ELSE NoLen

----------------------------------------------------------------------------
(* The derive's field dependency resolution (codegen).                     *)

FieldNames(fields) == {fields[j].name : j \in 1..Len(fields)}

\* the 1-based position of the first field whose length_prefix attribute
\* names `name`, or 0
FirstPrefixOf(name, fields) ==
    LET hits == {j \in 1..Len(fields) : fields[j].lp.has /\ fields[j].lp.src = name}
    IN IF hits = {} THEN 0 ELSE CHOOSE j \in hits : \A j2 \in hits : j <= j2

\* length_prefix_of(field, fields): the index (0-based) and kind of the field
\* `field` is the length prefix of; panic: the derive aborts on a
\* length_prefix that names no sibling, met while searching
length_prefix_of(field, fields) ==
    LET first == FirstPrefixOf(field.name, fields)
        visited == IF first = 0 THEN 1..Len(fields) ELSE 1..first
    IN [found |-> first # 0,
        index |-> first - 1,
        kind |-> IF first = 0 THEN "None" ELSE fields[first].lp.kind,
        panic |-> \E j \in visited :
                     fields[j].lp.has /\ fields[j].lp.src \notin FieldNames(fields)]

\* a faulty update_hints_before that leaves the previous field's width in
\* place when the field declares none
update_hints_before_stale(field, h) ==
    IF field.bits = 0 THEN h ELSE [h EXCEPT !.field_width = field.bits]

\* update_hints_before: field_width = Some(bits) for a bit-field, else None
update_hints_before(field, h) == [h EXCEPT !.field_width = field.bits]

\* update_hints_after_read / update_hints_after_write, then next_field():
\* `ok` is whether the field's read / write succeeded, v the field's value
update_hints_after(named, field, fields, ok, v, h) ==
    LET lp == length_prefix_of(field, fields)
    IN next_field(IF named /\ lp.found /\ ok
                  THEN set_field_length(h, lp.index, v, lp.kind)
                  ELSE h)

----------------------------------------------------------------------------
(* Alignment arithmetic.                                                   *)

\* a faulty padding that lacks the outer remainder: a full unit where none is needed
calculate_padding_full_unit(align, unaligned_size) ==
    align - (unaligned_size % align)

calculate_padding(align, unaligned_size) ==
    (align - (unaligned_size % align)) % align

\* align_to(align_to, padding_byte, bytes); failed: the assert_eq! fires.
\* A zero alignment unit divides by zero (a panic as well).
align_to(align, padding_byte, bytes) ==
    IF align = 0 THEN [failed |-> TRUE, bytes |-> bytes]
    ELSE LET extra == calculate_padding(align, Len(bytes))
             out == bytes \o [i \in 1..extra |-> padding_byte]
         IN [failed |-> Len(out) % align # 0, bytes |-> out]

----------------------------------------------------------------------------
(* Tagged unions: the discriminant table.                                  *)

\* a faulty assignment whose implicit discriminants start at 0
DiscriminantFromZero(vs, k) == IF vs[k].disc # -1 THEN vs[k].disc ELSE k - 1

\* the discriminant of the k-th variant: the explicit one, else the next
\* after the previous variant's, the first implicit one being 1
RECURSIVE DiscriminantOf(_, _)
DiscriminantOf(vs, k) ==
    IF vs[k].disc # -1 THEN vs[k].disc
    ELSE IF k = 1 THEN 1
    ELSE DiscriminantOf(vs, k - 1) + 1

\* the variants a raw discriminant resolves to
VariantsOf(vs, d) == {k \in 1..Len(vs) : DiscriminantOf(vs, k) = d}

----------------------------------------------------------------------------
(* Writing.                                                                *)

RECURSIVE SortedSeq(_)
SortedSeq(S) ==
    IF S = {} THEN <<>>
    ELSE LET m == CHOOSE x \in S : \A y \in S : x <= y
         IN <<m>> \o SortedSeq(S \ {m})

\* the order a map's iterator yields its keys in
MapIter(t, m) == IF t.it = "asc" THEN SortedSeq(DOMAIN m) ELSE Rev(SortedSeq(DOMAIN m))

\* what bool::write emits
BoolByte(b) == IF b THEN 1 ELSE 0

\* whether a usize fits the prefix integer type u32
FitsU32(n) == n \div 65536 < 65536

\* util::SizeType, the prefix integer type of Vec<T>, String and the maps
SizeType == PrefixType(4, FALSE)

\* S::from_usize(n) is Some: n fits the prefix integer type S
from_usize_ok(s, n) ==
    IF s.w = 4 /\ ~s.signed THEN FitsU32(n)
    ELSE n < (256 ^ s.w) \div (IF s.signed THEN 2 ELSE 1)

\* a faulty conversion that lets every count read through
to_usize_any(s, size) == TRUE

\* size.to_usize() is Some: the count read (its bytes taken as unsigned) is
\* not a negative value of a signed S
to_usize_ok(s, size) == ~s.signed \/ size < (256 ^ s.w) \div 2

\* `a?; b`: the first failure is returned, else both outputs in order
WThen(a, b) == IF ~a.ok THEN a ELSE IF ~b.ok THEN b ELSE WOk(a.bytes \o b.bytes)

\* an integer, or a bit-field of field_width bits: the stream refuses a
\* value that needs more bits than the declared width
write_int(t, v, field_width, ord) ==
    IF field_width # 0 /\ v >= 2 ^ field_width THEN WErr("Io")
    ELSE WOk(IntBytes(v, WidthIn(t, field_width), ord))

RECURSIVE WriteField(_, _, _, _), write_items(_, _, _, _), WriteFields(_, _, _, _, _, _),
          write_items_hinted(_, _, _, _),
          write_map_items(_, _, _, _)

\* Parcel::write: write_field with no hints
Write(t, v, ord) == WriteField(t, v, DefaultHints, ord)

\* a faulty write_items that stops after one element
write_items_one(t, items, i, ord) ==
    IF i > Len(items) THEN WOk(<<>>) ELSE Write(t, items[i], ord)

\* a faulty write_items whose elements inherit a length descriptor: each is
\* written through write_field with hints that hold a known length
write_items_hinted(t, items, i, ord) ==
    IF i > Len(items) THEN WOk(<<>>)
    ELSE WThen(WriteField(t, items[i],
                          set_field_length(begin_fields(DefaultHints), 0, 0, "Elements"), ord),
               write_items_hinted(t, items, i + 1, ord))

\* write_items: the elements in order, no prefix, the first failure returned
write_items(t, items, i, ord) ==
    IF i > Len(items) THEN WOk(<<>>)
    ELSE WThen(Write(t, items[i], ord), write_items(t, items, i + 1, ord))

\* a faulty prefix that is 32 bits wide whatever S is
write_prefix_u32(s, n, ord) ==
    IF ~from_usize_ok(s, n) THEN WErr("IntegerConversion") ELSE WOk(IntBytes(n, 4, ord))

\* the count prefix of write_list_ext::<S, T>
write_prefix(s, n, ord) ==
    IF ~from_usize_ok(s, n) THEN WErr("IntegerConversion") ELSE WOk(IntBytes(n, s.w, ord))

\* a faulty write_list_ext that sends its own prefix whatever the hints hold
write_list_ext_prefixed(s, t, elements, h, ord) ==
    WThen(write_prefix(s, Len(elements), ord), write_items(t, elements, 1, ord))

\* write_list_ext::<S, T>
write_list_ext(s, t, elements, h, ord) ==
    IF current_field_length(h).kind # "None"
    THEN write_items(t, elements, 1, ord)
    ELSE WThen(write_prefix(s, Len(elements), ord), write_items(t, elements, 1, ord))

\* only the first key/value pair
write_map_items_first(t, m, keys, ord) ==
    IF keys = <<>> THEN WOk(<<>>)
    ELSE WThen(Write(t.kt, Head(keys), ord), Write(t.vt, m[Head(keys)], ord))

write_map_items(t, m, keys, ord) ==
    IF keys = <<>> THEN WOk(<<>>)
    ELSE WThen(Write(t.kt, Head(keys), ord),
               WThen(Write(t.vt, m[Head(keys)], ord),
                     write_map_items(t, m, Tail(keys), ord)))

\* a field's result and the hints after the field (the post code and next_field())
StepOutcome(named, f, fields, res, v, h) ==
    [res |-> res, hints |-> update_hints_after(named, f, fields, res.ok, v, h)]

\* a faulty field step that writes nothing
WriteFieldStepNothing(named, fields, vals, i, h, ord) ==
    [res |-> WOk(<<>>), hints |-> next_field(h)]

\* one field of write_named_fields / write_unnamed_fields
WriteFieldStep(named, fields, vals, i, h, ord) ==
    StepOutcome(named, fields[i + 1], fields,
                WriteField(fields[i + 1].ty, vals[i + 1],
                           update_hints_before(fields[i + 1], h), ord),
                vals[i + 1], update_hints_before(fields[i + 1], h))

\* `res?` of the field just written, then the fields after it
WriteRest(named, fields, vals, i, s, ord) ==
    WThen(s.res, WriteFields(named, fields, vals, i + 1, s.hints, ord))

\* the fields from the i-th (0-based) on, in declaration order
WriteFields(named, fields, vals, i, h, ord) ==
    IF i >= Len(fields) THEN WOk(<<>>)
    ELSE WriteRest(named, fields, vals, i, WriteFieldStep(named, fields, vals, i, h, ord), ord)

\* the aligned bytes handed to write_bytes
write_aligned_bytes(al) == IF al.failed THEN WErr(Panic) ELSE WOk(al.bytes)

align_and_write(u, unaligned) ==
    IF ~unaligned.ok THEN unaligned
    ELSE write_aligned_bytes(align_to(u, 0, unaligned.bytes))

\* <Aligned as Protocol>::write (no length in the hints) and
\* <Aligned as ExternallyLengthPrefixed>::write (a length in the hints)
write_aligned(t, v, h, ord) ==
    align_and_write(t.u, IF current_field_length(h).kind = "None"
                         THEN Write(t.e, v, ord)
                         ELSE WriteField(t.e, v, h, ord))

\* a tagged union: the discriminant, then the variant's fields
write_enum(t, v, ord) ==
    WThen(WOk(IntBytes(DiscriminantOf(t.variants, v.variant), t.dw, ord)),
          WriteFields(t.variants[v.variant].named, t.variants[v.variant].fields,
                      v.fields, 0, begin_fields(DefaultHints), ord))

WriteField(t, v, h, ord) ==
    CASE IsInt(t) -> write_int(t, v, h.field_width, ord)
      [] t.k = "bool" -> WOk(<<BoolByte(v)>>)
      [] t.k = "vec" -> write_list_ext(SizeType, t.e, v, h, ord)
      [] t.k = "vecs" -> write_list_ext(t.s, t.e, v, h, ord)
      [] t.k = "str" -> write_list_ext(SizeType, U8, v, h, ord)
      [] t.k = "opt" ->
            IF v = <<>> THEN WOk(<<BoolByte(FALSE)>>)
            ELSE WThen(WOk(<<BoolByte(TRUE)>>), Write(t.e, v[1], ord))
      [] t.k = "arr" -> write_items(t.e, v, 1, ord)
      [] t.k = "map" ->
            WThen(WOk(IntBytes(Cardinality(DOMAIN v), 4, ord)),
                  write_map_items(t, v, MapIter(t, v), ord))
      [] t.k = "range" -> write_items(t.e, v, 1, ord)
      [] t.k = "rc" -> Write(t.e, v, ord)
      [] t.k = "struct" ->
            WriteFields(t.named, t.fields, v, 0, begin_fields(DefaultHints), ord)
      [] t.k = "aligned" -> write_aligned(t, v, h, ord)
      [] t.k = "enum" -> write_enum(t, v, ord)

\* Protocol::bytes: write, byte_align, return the data
bytes(t, v, ord) == Write(t, v, ord)

----------------------------------------------------------------------------
(* Reading.                                                                *)

IsCont(b) == b >= 128 /\ b <= 191

\* String::from_utf8 accepts the bytes from position i (1-based) on
RECURSIVE Utf8From(_, _)
Utf8From(s, i) ==
    IF i > Len(s) THEN TRUE
    ELSE IF s[i] < 128 THEN Utf8From(s, i + 1)
    ELSE IF s[i] >= 194 /\ s[i] <= 223
         THEN i + 1 <= Len(s) /\ IsCont(s[i + 1]) /\ Utf8From(s, i + 2)
    ELSE IF s[i] >= 224 /\ s[i] <= 239
         THEN /\ i + 2 <= Len(s)
              /\ IsCont(s[i + 1]) /\ IsCont(s[i + 2])
              /\ (s[i] = 224 => s[i + 1] >= 160)
              /\ (s[i] = 237 => s[i + 1] <= 159)
              /\ Utf8From(s, i + 3)
    ELSE IF s[i] >= 240 /\ s[i] <= 244
         THEN /\ i + 3 <= Len(s)
              /\ IsCont(s[i + 1]) /\ IsCont(s[i + 2]) /\ IsCont(s[i + 3])
              /\ (s[i] = 240 => s[i + 1] >= 144)
              /\ (s[i] = 244 => s[i + 1] <= 143)
              /\ Utf8From(s, i + 4)
    ELSE FALSE

from_utf8_ok(s) == Utf8From(s, 1)

\* `let (v, p) = r?; F(v, p)`: a failure is returned at once
RBind(r, F(_, _)) == IF ~r.ok THEN r ELSE F(r.val, r.pos)

RECURSIVE ReadField(_, _, _, _, _), read_items(_, _, _, _, _, _), parse_until(_, _, _, _, _),
          read_items_short(_, _, _, _, _, _),
          ReadFields(_, _, _, _, _, _, _, _), read_map_items(_, _, _, _, _, _)

\* Parcel::read: read_field with no hints
Read(t, buf, pos, ord) == ReadField(t, DefaultHints, buf, pos, ord)

\* a faulty read_items that hands out the elements read so far when the
\* input ends
read_items_short(t, item_count, items, buf, pos, ord) ==
    IF Len(items) >= item_count \/ ~Read(t, buf, pos, ord).ok THEN ROk(items, pos)
    ELSE read_items_short(t, item_count, Append(items, Read(t, buf, pos, ord).val), buf,
                          Read(t, buf, pos, ord).pos, ord)

\* read_items: item_count elements through the plain contract, the first
\* failure returned
read_items(t, item_count, items, buf, pos, ord) ==
    IF Len(items) >= item_count THEN ROk(items, pos)
    ELSE RBind(Read(t, buf, pos, ord),
               LAMBDA v, p : read_items(t, item_count, Append(items, v), buf, p, ord))

\* <[T; N]>::read: read_items(N), then the assertion on the number of
\* elements collected
read_array(t, buf, pos, ord) ==
    RBind(read_items(t.e, t.n, <<>>, buf, pos, ord),
          LAMBDA elements, p :
              IF Len(elements) # t.n THEN RErr(Panic, 0) ELSE ROk(elements, p))

\* one item of the loop of the Bytes branch: an unexpected end of input
\* inside the item panics, any other failure is returned; an item that
\* consumes nothing never lets the loop end
parse_item(t, bytes_read, pos, items, r, ord) ==
    IF ~r.ok THEN (IF r.err = "Io" THEN RErr(Panic, 0) ELSE r)
    ELSE IF r.pos = pos THEN RErr(Hang, 0)
    ELSE parse_until(t, bytes_read, r.pos, Append(items, r.val), ord)

\* the loop of the Bytes branch of read_list_ext over the bytes read back:
\* items are parsed until the position reaches the end of the buffer
parse_until(t, bytes_read, pos, items, ord) ==
    IF pos >= Len(bytes_read) THEN ROk(items, pos)
    ELSE parse_item(t, bytes_read, pos, items, Read(t, bytes_read, pos, ord), ord)

\* the elements after a count of the prefix integer type S was read
read_counted(s, t, size, buf, pos, ord) ==
    IF ~to_usize_ok(s, size) THEN RErr("IntegerConversion", 0)
    ELSE read_items(t, size, <<>>, buf, pos, ord)

\* read_list_ext::<S, T>
read_list_ext(s, t, h, buf, pos, ord) ==
    IF current_field_length(h).kind = "Bytes"
    THEN RBind(read_items(U8, current_field_length(h).length, <<>>, buf, pos, ord),
               LAMBDA raw, p : RBind(parse_until(t, raw, 0, <<>>, ord),
                                     LAMBDA items, q : ROk(items, p)))
    ELSE IF current_field_length(h).kind = "Elements"
    THEN read_items(t, current_field_length(h).length, <<>>, buf, pos, ord)
    ELSE RBind(ReadInt(s.w, buf, pos, ord),
               LAMBDA size, p : read_counted(s, t, size, buf, p, ord))

\* map.insert(key, value)
MapInsert(m, key, val) == [x \in DOMAIN m \cup {key} |-> IF x = key THEN val ELSE m[x]]

\* `length` key/value pairs inserted into the map
read_map_items(t, length, m, buf, pos, ord) ==
    IF length = 0 THEN ROk(m, pos)
    ELSE RBind(Read(t.kt, buf, pos, ord),
               LAMBDA key, p : RBind(Read(t.vt, buf, p, ord),
                   LAMBDA val, q : read_map_items(t, length - 1, MapInsert(m, key, val),
                                                  buf, q, ord)))

\* one field of read_named_fields / read_unnamed_fields
ReadStepOutcome(named, f, fields, res, h) == StepOutcome(named, f, fields, res, res.val, h)

ReadFieldStep(named, fields, i, h, buf, pos, ord) ==
    ReadStepOutcome(named, fields[i + 1], fields,
                    ReadField(fields[i + 1].ty, update_hints_before(fields[i + 1], h),
                              buf, pos, ord),
                    update_hints_before(fields[i + 1], h))

\* `res?` of the field just read, then the fields after it
ReadRest(named, fields, i, got, s, buf, ord) ==
    IF ~s.res.ok THEN s.res
    ELSE ReadFields(named, fields, i + 1, Append(got, s.res.val), s.hints, buf, s.res.pos, ord)

\* the fields from the i-th (0-based) on; got: the fields read so far
ReadFields(named, fields, i, got, h, buf, pos, ord) ==
    IF i >= Len(fields) THEN ROk(got, pos)
    ELSE ReadRest(named, fields, i, got,
                  ReadFieldStep(named, fields, i, h, buf, pos, ord), buf, ord)

\* the padding loop of Aligned::read: padding_size bytes, each of them zero
RECURSIVE read_padding(_, _, _)
read_padding(padding_size, buf, pos) ==
    IF padding_size = 0 THEN ROk(<<>>, pos)
    ELSE IF pos + 1 > Len(buf) THEN RErr("Io", 0)
    ELSE IF buf[pos + 1] # 0 THEN RErr("NonZeroPad", 0)
    ELSE read_padding(padding_size - 1, buf, pos + 1)

\* the padding Aligned::read expects after a value whose encoding, written
\* again through the plain contract, is `again`
\* (inner_value.bytes_ctx(..).unwrap().len()); -1 when that panics
padding_of(u, again) ==
    IF ~again.ok \/ u = 0 THEN -1 ELSE calculate_padding(u, Len(again.bytes))

read_padding_size(t, inner, ord) == padding_of(t.u, bytes(t.e, inner, ord))

\* the inner value once its padding is read
read_padded(v, p, padding_size, buf) ==
    IF padding_size = -1 THEN RErr(Panic, 0)
    ELSE RBind(read_padding(padding_size, buf, p), LAMBDA x, q : ROk(v, q))

\* <Aligned as Protocol>::read (no length in the hints) and
\* <Aligned as ExternallyLengthPrefixed>::read (a length in the hints)
read_aligned(t, h, buf, pos, ord) ==
    RBind(IF current_field_length(h).kind = "None"
          THEN Read(t.e, buf, pos, ord)
          ELSE ReadField(t.e, h, buf, pos, ord),
          LAMBDA v, p : read_padded(v, p, read_padding_size(t, v, ord), buf))

\* a faulty lookup that falls back to the first variant
resolve_variant_or_first(t, d) ==
    IF VariantsOf(t.variants, d) = {} THEN 1
    ELSE CHOOSE k \in VariantsOf(t.variants, d) : \A k2 \in VariantsOf(t.variants, d) : k <= k2

\* looking a raw discriminant up in the variant table: the first variant
\* it maps to, or 0
resolve_variant(t, d) ==
    IF VariantsOf(t.variants, d) = {} THEN 0
    ELSE CHOOSE k \in VariantsOf(t.variants, d) : \A k2 \in VariantsOf(t.variants, d) : k <= k2

\* the fields of the resolved variant
read_variant(t, k, buf, pos, ord) ==
    RBind(ReadFields(t.variants[k].named, t.variants[k].fields, 0, <<>>,
                     begin_fields(DefaultHints), buf, pos, ord),
          LAMBDA fs, p : ROk([variant |-> k, fields |-> fs], p))

\* the variant a discriminant read from the stream selects, or the error
read_resolved(t, k, d, buf, pos, ord) ==
    IF k = 0 THEN RErr("UnknownDiscriminant", d)
    ELSE read_variant(t, k, buf, pos, ord)

\* a tagged union: the discriminant, its lookup, the variant's fields
read_enum(t, buf, pos, ord) ==
    RBind(ReadInt(t.dw, buf, pos, ord),
          LAMBDA d, p : read_resolved(t, resolve_variant(t, d), d, buf, p, ord))

ReadField(t, h, buf, pos, ord) ==
    CASE IsInt(t) -> ReadInt(WidthIn(t, h.field_width), buf, pos, ord)
      [] t.k = "bool" -> RBind(ReadInt(1, buf, pos, ord), LAMBDA b, p : ROk(b # 0, p))
      [] t.k = "vec" -> read_list_ext(SizeType, t.e, h, buf, pos, ord)
      [] t.k = "vecs" -> read_list_ext(t.s, t.e, h, buf, pos, ord)
      [] t.k = "str" ->
            RBind(read_list_ext(SizeType, U8, h, buf, pos, ord),
                  LAMBDA s, p : IF from_utf8_ok(s) THEN ROk(s, p) ELSE RErr("Utf8", 0))
      [] t.k = "opt" ->
            RBind(Read(Bool, buf, pos, ord),
                  LAMBDA is_some, p :
                      IF ~is_some THEN ROk(<<>>, p)
                      ELSE RBind(Read(t.e, buf, p, ord), LAMBDA v, q : ROk(<<v>>, q)))
      [] t.k = "arr" -> read_array(t, buf, pos, ord)
      [] t.k = "map" ->
            RBind(ReadInt(4, buf, pos, ord),
                  LAMBDA length, p : read_map_items(t, length, <<>>, buf, p, ord))
      [] t.k = "range" -> read_items(t.e, 2, <<>>, buf, pos, ord)
      [] t.k = "rc" -> Read(t.e, buf, pos, ord)
      [] t.k = "struct" ->
            ReadFields(t.named, t.fields, 0, <<>>, begin_fields(DefaultHints), buf, pos, ord)
      [] t.k = "aligned" -> read_aligned(t, h, buf, pos, ord)
      [] t.k = "enum" -> read_enum(t, buf, pos, ord)

\* a from_bytes that rejects a slice it did not consume to its end
from_bytes_exact(t, buf, ord) ==
    IF Read(t, buf, 0, ord).ok /\ Read(t, buf, 0, ord).pos # Len(buf)
    THEN RErr("Trailing", 0)
    ELSE Read(t, buf, 0, ord)

\* Protocol::from_bytes: a reader over the slice at the settings' byte order
from_bytes(t, buf, ord) == Read(t, buf, 0, ord)

----------------------------------------------------------------------------
(* The values and buffers enumerated.                                      *)

\* the sequences over S of length at most n
BSeq(S, n) == UNION {[1..m -> S] : m \in 0..n}

\* a sequence too long for its count to fit a signed prefix integer type
\* of one byte (128 times the same element)
LongLists(s, E) ==
    IF s.signed /\ s.w = 1
    THEN {[i \in 1..((256 ^ s.w) \div 2) |-> x] : x \in {CHOOSE y \in E : TRUE}}
    ELSE {}

RECURSIVE ValuesOf(_), FieldValues(_, _)

\* the tuples of values of the fields from the i-th (1-based) on
FieldValues(fields, i) ==
    IF i > Len(fields) THEN {<<>>}
    ELSE {<<x>> \o rest : x \in ValuesOf(fields[i].ty), rest \in FieldValues(fields, i + 1)}

ValuesOf(t) ==
    CASE t.k = "u8" -> U8Vals
      [] t.k = "u16" -> U16Vals
      [] t.k = "u32" -> U32Vals
      [] t.k = "bool" -> BOOLEAN
      [] t.k = "vec" -> BSeq(ValuesOf(t.e), MaxLen)
      [] t.k = "vecs" -> BSeq(ValuesOf(t.e), MaxLen) \cup LongLists(t.s, ValuesOf(t.e))
      [] t.k = "str" -> BSeq(StrBytes, MaxLen)
      [] t.k = "opt" -> {<<>>} \cup {<<x>> : x \in ValuesOf(t.e)}
      [] t.k = "arr" -> [1..t.n -> ValuesOf(t.e)]
      [] t.k = "map" -> UNION {[ks -> ValuesOf(t.vt)] : ks \in SUBSET ValuesOf(t.kt)}
      [] t.k = "range" -> [1..2 -> ValuesOf(t.e)]
      [] t.k = "rc" -> ValuesOf(t.e)
      [] t.k = "struct" -> FieldValues(t.fields, 1)
      [] t.k = "aligned" -> ValuesOf(t.e)
      [] t.k = "enum" ->
            UNION {{[variant |-> k, fields |-> fv] : fv \in FieldValues(t.variants[k].fields, 1)} :
                   k \in 1..Len(t.variants)}

\* struct Ping { id: u16, data: Vec<u8> }
Ping == StructOf(TRUE, <<Field("id", U16, NoAttr), Field("data", VecOf(U8), NoAttr)>>)

\* struct { count: u8, #[protocol(length_prefix(elements(count)))] payload: Vec<u16> }
PrefixedByElements ==
    StructOf(TRUE, <<Field("count", U8, NoAttr),
                     Field("payload", VecOf(U16), LengthPrefix("Elements", "count"))>>)

\* struct { len: u8, #[protocol(length_prefix(bytes(len)))] payload: Vec<u16> }
PrefixedByBytes ==
    StructOf(TRUE, <<Field("len", U8, NoAttr),
                     Field("payload", VecOf(U16), LengthPrefix("Bytes", "len"))>>)

\* struct Pair(u8, u16)
Pair == StructOf(FALSE, <<Field("0", U8, NoAttr), Field("1", U16, NoAttr)>>)

\* enum BoatKind { Speedboat { warp_speed_enabled: bool }, Dingy(u8, u8), Fart }
BoatKind ==
    EnumOf(4, <<Variant("Speedboat", -1, TRUE, <<Field("warp_speed_enabled", Bool, NoAttr)>>),
                Variant("Dingy", -1, FALSE, <<Field("0", U8, NoAttr), Field("1", U8, NoAttr)>>),
                Variant("Fart", -1, TRUE, <<>>)>>)

\* #[repr(u8)] enum WithCustomRepr { First = 1, Second = 2 }
WithCustomRepr ==
    EnumOf(1, <<Variant("First", 1, TRUE, <<>>), Variant("Second", 2, TRUE, <<>>)>>)

\* #[repr(u8)] enum CustomDiscriminantAttrs { #[discriminant(255)] Hello, #[discriminant(122)] World }
CustomDiscriminantAttrs ==
    EnumOf(1, <<Variant("Hello", 255, TRUE, <<>>), Variant("World", 122, TRUE, <<>>)>>)

\* #[repr(i8)] enum WithoutExplicitDiscriminants { Only }
WithoutExplicitDiscriminants == EnumOf(1, <<Variant("Only", -1, TRUE, <<>>)>>)

\* struct Packet { reason_length: u8,
\*                 #[protocol(length_prefix(bytes(reason_length)))] reason: Aligned<String, U> }
\* (u is size_of::<U>())
Packet(u) ==
    StructOf(TRUE, <<Field("reason_length", U8, NoAttr),
                     Field("reason", AlignedOf(Str, u), LengthPrefix("Bytes", "reason_length"))>>)

\* the types of the top-level values of the codec specification
CodecTypes ==
    <<U8, U16, U32, Bool, VecOf(U8), VecOf(U16), OptOf(U16), ArrOf(2, U8), ArrOf(2, U16),
      MapOf(U16, Bool, "asc"), MapOf(U16, Bool, "desc"), Str, RangeOf(U8), RcOf(U16),
      Ping, PrefixedByElements, PrefixedByBytes, Pair, BoatKind>>

\* the tagged unions of the discriminant specification
EnumTypes == <<BoatKind, WithCustomRepr, CustomDiscriminantAttrs, WithoutExplicitDiscriminants>>

\* the aligned values of the alignment specification: Aligned<T, U> with
\* size_of::<U>() of 0 (the unit type), 1, 2, 3, 4 and 8, read and written
\* through the plain contract, and as a field that has a length prefix
AlignedTypes ==
    <<AlignedOf(U8, 0), AlignedOf(Str, 1), AlignedOf(U8, 2), AlignedOf(Str, 3),
      AlignedOf(U16, 4), AlignedOf(Str, 4), AlignedOf(VecOf(U16), 8), AlignedOf(Str, 8),
      Packet(1), Packet(3), Packet(4), Packet(8)>>

\* buffers a peer may send where a value of a codec type is expected
CodecWires(t) == BSeq(RawBytes, MaxWire)

\* raw discriminants a peer may send (in four bytes and either byte order
\* they stay below 2^31), and the bytes after them
RawDiscriminants == {0, 1, 2, 3, 4, 99, 122}
VariantBytes == {1, 78, 99}

\* buffers a peer may send where a tagged union is expected: a discriminant
\* in either byte order and up to two bytes, a truncated discriminant, the
\* one-byte discriminant 255 and the buffer of
\* returns_error_on_unexpected_discriminant
EnumWires(t) ==
    {IntBytes(d, t.dw, o) \o p :
        d \in RawDiscriminants, o \in ByteOrders, p \in BSeq(VariantBytes, 2)}
    \cup {Zeros(n) : n \in 0..(t.dw - 1)}
    \cup (IF t.dw = 1 THEN {<<255>>} ELSE {})
    \cup {<<99, 99, 88, 11, 13>>}

\* longest run of bytes enumerated after an inner value
MaxPad == 7

\* candidate padding: zero bytes, at most one of them replaced by a 1
PadCandidates ==
    {[i \in 1..n |-> IF i = j THEN 1 ELSE 0] : n \in 0..MaxPad, j \in 0..MaxPad}

\* the encodings of the values of t (through the plain contract)
EncodingsOf(t) ==
    UNION {{bytes(t, v, o).bytes : v \in ValuesOf(t)} : o \in ByteOrders}

\* buffers a peer may send where an aligned value is expected: an inner
\* encoding (declared length first, when the length is a sibling field)
\* followed by candidate padding
AlignedWires(t) ==
    IF t.k = "aligned"
    THEN {e \o p : e \in EncodingsOf(t.e), p \in PadCandidates}
    ELSE {<<Len(s)>> \o s \o p : s \in ValuesOf(Str), p \in PadCandidates}

----------------------------------------------------------------------------
(* The codec state machine: bytes() of a value, then from_bytes() of the   *)
(* bytes; a top-level aggregate is written and read one field per step.    *)

IsStruct == ty.k = "struct"

\* the hints an aggregate pass starts with (a fresh Hints, begin_fields())
FreshHints(t) == IF t.k = "struct" THEN begin_fields(DefaultHints) ELSE DefaultHints

MwIdle == [phase |-> "idle", pipeline |-> <<>>, input |-> <<>>, data |-> <<>>, stage |-> 0]

NoTag == [raw |-> -1, variant |-> 0]

InitOf(types, WiresOf(_)) ==
    /\ byte_order \in ByteOrders
    /\ \E i \in 1..Len(types) :
          /\ ty = types[i]
          /\ \/ /\ origin = "value"
                /\ value \in ValuesOf(types[i])
                /\ wire = <<>>
                /\ phase = "write"
             \/ /\ origin = "raw"
                /\ value = <<>>
                /\ wire \in WiresOf(types[i])
                /\ phase = "written"
          /\ hints = FreshHints(types[i])
    /\ acc = <<>>
    /\ rpos = 0
    /\ result = NoResult
    /\ dstate = "Unresolved"
    /\ tag = NoTag
    /\ mw = MwIdle

Init == InitOf(CodecTypes, CodecWires)

\* the writer after a write that returned r
WriteOutcome(r) ==
    IF r.ok
    THEN /\ wire' = wire \o r.bytes
         /\ phase' = "written"
         /\ result' = result
    ELSE /\ wire' = wire
         /\ phase' = "wfail"
         /\ result' = RErr(r.err, 0)

\* the writer and the hints after one field's step s
WriteFieldOutcome(s) ==
    /\ hints' = s.hints
    /\ IF s.res.ok
       THEN /\ wire' = wire \o s.res.bytes
            /\ phase' = phase
            /\ result' = result
       ELSE /\ wire' = wire
            /\ phase' = "wfail"
            /\ result' = RErr(s.res.err, 0)

\* a faulty outcome that goes on to the next field after a failed read
ReadFieldOutcomeContinues(s) ==
    /\ hints' = s.hints
    /\ acc' = Append(acc, s.res.val)
    /\ rpos' = IF s.res.ok THEN s.res.pos ELSE rpos
    /\ phase' = phase
    /\ result' = result

\* the reader and the hints after one field's step s
ReadFieldOutcome(s) ==
    /\ hints' = s.hints
    /\ IF s.res.ok
       THEN /\ acc' = Append(acc, s.res.val)
            /\ rpos' = s.res.pos
            /\ phase' = phase
            /\ result' = result
       ELSE /\ acc' = acc
            /\ rpos' = rpos
            /\ phase' = "done"
            /\ result' = s.res

\* bytes() of a value that is not a top-level aggregate
WriteValue ==
    /\ phase = "write"
    /\ ~IsStruct
    /\ WriteOutcome(bytes(ty, value, byte_order))
    /\ UNCHANGED <<ty, value, byte_order, origin, hints, acc, rpos, dstate, tag, mw>>

\* the next field of write_named_fields / write_unnamed_fields
WriteFieldAct ==
    /\ phase = "write"
    /\ IsStruct
    /\ hints.idx < Len(ty.fields)
    /\ WriteFieldOutcome(WriteFieldStep(ty.named, ty.fields, value, hints.idx, hints,
                                        byte_order))
    /\ UNCHANGED <<ty, value, byte_order, origin, acc, rpos, dstate, tag, mw>>

\* every field written: byte_align and return the data
FinishWrite ==
    /\ phase = "write"
    /\ IsStruct
    /\ hints.idx = Len(ty.fields)
    /\ phase' = "written"
    /\ UNCHANGED <<ty, value, byte_order, origin, wire, hints, acc, rpos, result, dstate, tag, mw>>

\* from_bytes: a reader over the bytes, a fresh Hints
FromBytes ==
    /\ phase = "written"
    /\ phase' = "read"
    /\ rpos' = 0
    /\ acc' = <<>>
    /\ hints' = FreshHints(ty)
    /\ UNCHANGED <<ty, value, byte_order, origin, wire, result, dstate, tag, mw>>

\* read of a value that is not a top-level aggregate
ReadValue ==
    /\ phase = "read"
    /\ ~IsStruct
    /\ result' = from_bytes(ty, wire, byte_order)
    /\ phase' = "done"
    /\ rpos' = IF result'.ok THEN result'.pos ELSE rpos
    /\ UNCHANGED <<ty, value, byte_order, origin, wire, hints, acc, dstate, tag, mw>>

\* the next field of read_named_fields / read_unnamed_fields
ReadFieldAct ==
    /\ phase = "read"
    /\ IsStruct
    /\ hints.idx < Len(ty.fields)
    /\ ReadFieldOutcome(ReadFieldStep(ty.named, ty.fields, hints.idx, hints, wire, rpos,
                                      byte_order))
    /\ UNCHANGED <<ty, value, byte_order, origin, wire, dstate, tag, mw>>

\* every field read: the aggregate is built
FinishRead ==
    /\ phase = "read"
    /\ IsStruct
    /\ hints.idx = Len(ty.fields)
    /\ result' = ROk(acc, rpos)
    /\ phase' = "done"
    /\ UNCHANGED <<ty, value, byte_order, origin, wire, hints, acc, rpos, dstate, tag, mw>>

Next ==
    \/ WriteValue
    \/ WriteFieldAct
    \/ FinishWrite
    \/ FromBytes
    \/ ReadValue
    \/ ReadFieldAct
    \/ FinishRead

Spec == Init /\ [][Next]_vars

----------------------------------------------------------------------------
(* The alignment specification: the codec state machine over aligned       *)
(* values.                                                                 *)

InitAligned == InitOf(AlignedTypes, AlignedWires)

SpecAligned == InitAligned /\ [][Next]_vars

----------------------------------------------------------------------------
(* The discriminant specification: an internally tagged union is written   *)
(* and read one step at a time - the discriminant, its lookup in the       *)
(* variant table, then the variant's fields.                               *)

InitEnum == InitOf(EnumTypes, EnumWires)

\* the variant being written / the variant the discriminant resolved to
WrittenVariant == ty.variants[value.variant]
ReadVariant == ty.variants[tag.variant]

\* write: the active variant's discriminant, in the discriminant's width
WriteTag ==
    /\ phase = "write"
    /\ hints.idx = -1
    /\ wire' = wire \o IntBytes(DiscriminantOf(ty.variants, value.variant), ty.dw, byte_order)
    /\ hints' = begin_fields(DefaultHints)
    /\ UNCHANGED <<ty, value, byte_order, origin, phase, acc, rpos, result, dstate, tag, mw>>

\* write: the next field of the active variant
WriteVariantField ==
    /\ phase = "write"
    /\ hints.idx >= 0
    /\ hints.idx < Len(WrittenVariant.fields)
    /\ WriteFieldOutcome(WriteFieldStep(WrittenVariant.named, WrittenVariant.fields,
                                        value.fields, hints.idx, hints, byte_order))
    /\ UNCHANGED <<ty, value, byte_order, origin, acc, rpos, dstate, tag, mw>>

\* write: every field of the variant written
FinishWriteVariant ==
    /\ phase = "write"
    /\ hints.idx = Len(WrittenVariant.fields)
    /\ phase' = "written"
    /\ UNCHANGED <<ty, value, byte_order, origin, wire, hints, acc, rpos, result, dstate, tag, mw>>

\* the resolution after the discriminant's read returned r
ReadTagOutcome(r) ==
    IF r.ok
    THEN /\ dstate' = "TagKnown"
         /\ tag' = [raw |-> r.val, variant |-> 0]
         /\ rpos' = r.pos
         /\ phase' = phase
         /\ result' = result
    ELSE /\ dstate' = "Failed"
         /\ tag' = tag
         /\ rpos' = rpos
         /\ phase' = "done"
         /\ result' = r

\* read: the discriminant value
ReadTag ==
    /\ phase = "read"
    /\ dstate = "Unresolved"
    /\ ReadTagOutcome(ReadInt(ty.dw, wire, rpos, byte_order))
    /\ UNCHANGED <<ty, value, byte_order, origin, wire, hints, acc, mw>>

\* the resolution after the lookup returned variant k (0: no variant)
ResolveOutcome(k) ==
    IF k = 0
    THEN /\ dstate' = "Failed"
         /\ tag' = tag
         /\ hints' = hints
         /\ phase' = "done"
         /\ result' = RErr("UnknownDiscriminant", tag.raw)
    ELSE /\ dstate' = "VariantResolved"
         /\ tag' = [tag EXCEPT !.variant = k]
         /\ hints' = begin_fields(DefaultHints)
         /\ phase' = phase
         /\ result' = result

\* read: the discriminant looked up against the variant table
ResolveVariant ==
    /\ phase = "read"
    /\ dstate = "TagKnown"
    /\ ResolveOutcome(resolve_variant(ty, tag.raw))
    /\ UNCHANGED <<ty, value, byte_order, origin, wire, acc, rpos, mw>>

\* read: the next field of the resolved variant
ReadVariantField ==
    /\ phase = "read"
    /\ dstate = "VariantResolved"
    /\ hints.idx < Len(ReadVariant.fields)
    /\ ReadFieldOutcome(ReadFieldStep(ReadVariant.named, ReadVariant.fields, hints.idx,
                                      hints, wire, rpos, byte_order))
    /\ UNCHANGED <<ty, value, byte_order, origin, wire, dstate, tag, mw>>

\* read: every field of the variant read, the variant value is built
FinishReadVariant ==
    /\ phase = "read"
    /\ dstate = "VariantResolved"
    /\ hints.idx = Len(ReadVariant.fields)
    /\ result' = ROk([variant |-> tag.variant, fields |-> acc], rpos)
    /\ phase' = "done"
    /\ UNCHANGED <<ty, value, byte_order, origin, wire, hints, acc, rpos, dstate, tag, mw>>

NextEnum ==
    \/ WriteTag
    \/ WriteVariantField
    \/ FinishWriteVariant
    \/ FromBytes
    \/ ReadTag
    \/ ResolveVariant
    \/ ReadVariantField
    \/ FinishReadVariant

SpecEnum == InitEnum /\ [][NextEnum]_vars

----------------------------------------------------------------------------
(* The variant table specification: the discriminant state machine over    *)
(* unions that mix attribute-declared and implicit discriminants.          *)

\* #[repr(u8)] enum { #[protocol(discriminant(4))] Left, #[protocol(discriminant(4))] Right }
DuplicateExplicit ==
    EnumOf(1, <<Variant("Left", 4, TRUE, <<>>), Variant("Right", 4, TRUE, <<>>)>>)

\* #[repr(u8)] enum { First, #[protocol(discriminant(1))] Second(u8) }
ImplicitThenExplicit ==
    EnumOf(1, <<Variant("First", -1, TRUE, <<>>),
                Variant("Second", 1, FALSE, <<Field("0", U8, NoAttr)>>)>>)

\* #[repr(u8)] enum { #[protocol(discriminant(3))] Three, Four(u8), #[protocol(discriminant(1))] One }
ExplicitThenImplicit ==
    EnumOf(1, <<Variant("Three", 3, TRUE, <<>>),
                Variant("Four", -1, FALSE, <<Field("0", U8, NoAttr)>>),
                Variant("One", 1, TRUE, <<>>)>>)

TableTypes ==
    <<CustomDiscriminantAttrs, WithCustomRepr, BoatKind, DuplicateExplicit,
      ImplicitThenExplicit, ExplicitThenImplicit>>

InitTable == InitOf(TableTypes, EnumWires)

SpecTable == InitTable /\ [][NextEnum]_vars

----------------------------------------------------------------------------
(* The aggregate specification: the derive expands an aggregate            *)
(* definition (and may refuse it), then the codec state machine runs over  *)
(* its fields; sequences with their own prefix type and maps are its       *)
(* field types and its top-level values.                                   *)

\* struct { #[protocol(length_prefix(elements(count)))] payload: Vec<u16>, count: u8 }
SourceAfterTarget ==
    StructOf(TRUE, <<Field("payload", VecOf(U16), LengthPrefix("Elements", "count")),
                     Field("count", U8, NoAttr)>>)

\* struct { count: u8, #[protocol(length_prefix(elements(ghost)))] payload: Vec<u16> }
GhostNamed ==
    StructOf(TRUE, <<Field("count", U8, NoAttr),
                     Field("payload", VecOf(U16), LengthPrefix("Elements", "ghost"))>>)

\* struct (u8, #[protocol(length_prefix(elements(ghost)))] Vec<u16>)
GhostTuple ==
    StructOf(FALSE, <<Field("0", U8, NoAttr),
                      Field("1", VecOf(U16), LengthPrefix("Elements", "ghost"))>>)

\* struct { #[protocol(bits = 8)] flags: u16, id: u16, #[protocol(bits = 16)] small: u32 }
WithBits ==
    StructOf(TRUE, <<Bitfield("flags", U16, 8), Field("id", U16, NoAttr),
                     Bitfield("small", U32, 16)>>)

\* struct { count: u8, #[protocol(length_prefix(elements(count)))] payload: Vec<u16>,
\*          tail: Vec<u16> }
Scoped ==
    StructOf(TRUE, <<Field("count", U8, NoAttr),
                     Field("payload", VecOf(U16), LengthPrefix("Elements", "count")),
                     Field("tail", VecOf(U16), NoAttr)>>)

\* struct { head: u8, items: types::Vec<i8, u16>, tail: u8 }
LongList ==
    StructOf(TRUE, <<Field("head", U8, NoAttr),
                     Field("items", VecS(PrefixType(1, TRUE), U16), NoAttr),
                     Field("tail", U8, NoAttr)>>)

\* struct { n: u8, #[protocol(length_prefix(elements(n)))] m: HashMap<u16, bool> }
MapField ==
    StructOf(TRUE, <<Field("n", U8, NoAttr),
                     Field("m", MapOf(U16, Bool, "desc"), LengthPrefix("Elements", "n"))>>)

\* the aggregate definitions handed to the derive, and the sequences and
\* maps read and written on their own
FieldTypes ==
    <<PrefixedByElements, SourceAfterTarget, GhostNamed, GhostTuple, WithBits, Scoped,
      LongList, MapField, Pair,
      VecOf(U16), VecS(PrefixType(1, FALSE), U16), VecS(PrefixType(1, TRUE), U16),
      MapOf(U16, Bool, "asc"), MapOf(U16, Bool, "desc")>>

\* buffers a peer may send where a value of one of these types is expected;
\* where a one-byte count is read, also counts with the sign bit set
FieldWires(t) ==
    BSeq(RawBytes, MaxWire)
    \cup (IF t.k = "vecs" THEN {<<128>>, <<255, 0, 1>>, <<129, 0, 1, 0, 1>>} ELSE {})
    \cup (IF t = LongList THEN {<<1, 128, 0>>, <<1, 255, 0, 1, 0>>} ELSE {})

\* the derive aborts (a compile error): read_named_fields and
\* write_named_fields call length_prefix_of for every field, which panics
\* on a length_prefix naming no sibling; the code generated for unnamed
\* fields never looks at a length_prefix attribute
derive_panics(named, fields) ==
    named /\ \E j \in 1..Len(fields) : length_prefix_of(fields[j], fields).panic

InitFields ==
    /\ byte_order \in ByteOrders
    /\ \E i \in 1..Len(FieldTypes) :
          /\ ty = FieldTypes[i]
          /\ \/ /\ origin = "value"
                /\ value \in ValuesOf(FieldTypes[i])
                /\ wire = <<>>
                /\ phase = IF FieldTypes[i].k = "struct" THEN "derive" ELSE "write"
             \/ /\ origin = "raw"
                /\ value = <<>>
                /\ wire \in FieldWires(FieldTypes[i])
                /\ phase = IF FieldTypes[i].k = "struct" THEN "derive" ELSE "written"
          /\ hints = FreshHints(FieldTypes[i])
    /\ acc = <<>>
    /\ rpos = 0
    /\ result = NoResult
    /\ dstate = "Unresolved"
    /\ tag = NoTag
    /\ mw = MwIdle

\* the expansion of #[derive(Protocol)] on the aggregate: a definition the
\* derive refuses has no codec, no byte is ever read or written for it
Derive ==
    /\ phase = "derive"
    /\ IF derive_panics(ty.named, ty.fields)
       THEN /\ phase' = "rejected"
            /\ result' = RErr("InvalidLengthPrefix", 0)
       ELSE /\ phase' = (IF origin = "value" THEN "write" ELSE "written")
            /\ result' = result
    /\ UNCHANGED <<ty, value, byte_order, origin, wire, hints, acc, rpos, dstate, tag, mw>>

NextFields ==
    \/ Derive
    \/ WriteValue
    \/ WriteFieldAct
    \/ FinishWrite
    \/ FromBytes
    \/ ReadValue
    \/ ReadFieldAct
    \/ FinishRead

SpecFields == InitFields /\ [][NextFields]_vars

----------------------------------------------------------------------------
(* The bit-field specification: an Option is written to and read from a    *)
(* bit stream, through the plain contract (a bool flag) and as a bit-field *)
(* (a flag of the declared number of bits).  The writer's pending bits and *)
(* the reader's buffer are sequences of bits in stream order: the most     *)
(* significant bit of a value first on a big-endian stream, the least      *)
(* significant first on a little-endian one.                               *)

\* <Option<T> as BitField> with a flag of `bits` bits
OptBits(e, bits) == [k |-> "optbits", e |-> e, bits |-> bits]

\* the n bits of v in stream order
BitsOfValue(v, n, ord) ==
    IF ord = "BigEndian" THEN [i \in 1..n |-> (v \div (2 ^ (n - i))) % 2]
    ELSE [i \in 1..n |-> (v \div (2 ^ (i - 1))) % 2]

RECURSIVE BitSum(_, _, _)
BitSum(b, i, ord) ==
    IF i > Len(b) THEN 0
    ELSE b[i] * (IF ord = "BigEndian" THEN 2 ^ (Len(b) - i) ELSE 2 ^ (i - 1))
         + BitSum(b, i + 1, ord)

\* the value of a run of bits in stream order
ValueOfBits(b, ord) == BitSum(b, 1, ord)

\* bytes written to the bit stream one after the other
RECURSIVE BitsOfBytes(_, _)
BitsOfBytes(bs, ord) ==
    IF bs = <<>> THEN <<>>
    ELSE BitsOfValue(Head(bs), 8, ord) \o BitsOfBytes(Tail(bs), ord)

\* the whole bytes of a run of bits
PackBits(b, ord) ==
    [j \in 1..(Len(b) \div 8) |-> ValueOfBits(SubSeq(b, 8 * j - 7, 8 * j), ord)]

\* a writer that is not aligned: the bits after the last whole byte are lost
byte_align_none(b) == b

\* writer.byte_align(): zero bits up to the next byte boundary
byte_align(b) == b \o Zeros((8 - (Len(b) % 8)) % 8)

\* the presence flag: bool::write of the plain contract (one byte), or
\* <bool as BitField>::write_field with the declared number of bits
write_flag(t, is_some, ord) ==
    IF t.k = "opt" THEN BitsOfBytes(Write(Bool, is_some, ord).bytes, ord)
    ELSE BitsOfValue(BoolByte(is_some), t.bits, ord)

\* value.write(write, settings): the plain encoding, at the writer's position
write_some(t, v, ord) == BitsOfBytes(Write(t.e, v, ord).bytes, ord)

\* the bits of the flag
FlagWidth(t) == IF t.k = "opt" THEN 8 ELSE t.bits

\* the flag read at bit position pos
read_flag(t, b, pos, ord) ==
    IF pos + FlagWidth(t) > Len(b) THEN RErr("Io", 0)
    ELSE ROk(ValueOfBits(SubSeq(b, pos + 1, pos + FlagWidth(t)), ord) # 0, pos + FlagWidth(t))

\* T::read through the plain contract at bit position pos
PlainReadAt(t, b, pos, r) == IF r.ok THEN ROk(<<r.val>>, pos + 8 * r.pos) ELSE r

\* a faulty read of the value that skips to the next byte boundary first
read_some_aligned(t, b, pos, ord) ==
    PlainReadAt(t, b, Len(byte_align(SubSeq(b, 1, pos))),
                Read(t.e, PackBits(SubSeq(b, Len(byte_align(SubSeq(b, 1, pos))) + 1, Len(b)), ord),
                     0, ord))

\* the value read after a true flag: Some(T::read(read, settings)?)
read_some(t, b, pos, ord) ==
    PlainReadAt(t, b, pos, Read(t.e, PackBits(SubSeq(b, pos + 1, Len(b)), ord), 0, ord))

\* the values of the bit-field specification (5: the value of the tests);
\* of a sequence, one whose count does not fit its prefix type
BitValues(t) ==
    {<<>>} \cup {<<x>> : x \in (IF t.e = U8 THEN {0, 5, 255}
                                ELSE IF t.e = U16 THEN U16Vals
                                ELSE LongLists(t.e.s, {1}))}

BitTypes ==
    <<OptOf(U8), OptOf(U16), OptBits(U8, 1), OptBits(U16, 1), OptBits(U8, 3), OptBits(U16, 8),
      OptBits(VecS(PrefixType(1, TRUE), U16), 1)>>

\* bytes of the buffers a peer may send (0x82, 0x80: the bytes of the tests)
BitBytes == {0, 1, 128, 130, 160}

\* longest buffer a peer may send
MaxBitWire == 3

InitBits ==
    /\ byte_order \in ByteOrders
    /\ \E i \in 1..Len(BitTypes) :
          /\ ty = BitTypes[i]
          /\ \/ /\ origin = "value"
                /\ value \in BitValues(BitTypes[i])
                /\ wire = <<>>
                /\ phase = "wflag"
             \/ /\ origin = "raw"
                /\ IsInt(BitTypes[i].e)
                /\ value = <<>>
                /\ wire \in BSeq(BitBytes, MaxBitWire)
                /\ phase = "written"
    /\ hints = DefaultHints
    /\ acc = <<>>
    /\ rpos = 0
    /\ result = NoResult
    /\ dstate = "Unresolved"
    /\ tag = NoTag
    /\ mw = MwIdle

\* write_field: the presence flag
WriteFlag ==
    /\ phase = "wflag"
    /\ acc' = acc \o write_flag(ty, value # <<>>, byte_order)
    /\ phase' = IF value # <<>> THEN "wsome" ELSE "walign"
    /\ UNCHANGED <<ty, value, byte_order, origin, wire, hints, rpos, result, dstate, tag, mw>>

\* write_field: the value, if there is one; its failure is returned and
\* no data is
WriteSome ==
    /\ phase = "wsome"
    /\ IF Write(ty.e, value[1], byte_order).ok
       THEN /\ acc' = acc \o write_some(ty, value[1], byte_order)
            /\ phase' = "walign"
            /\ result' = result
       ELSE /\ acc' = acc
            /\ phase' = "wfail"
            /\ result' = RErr(Write(ty.e, value[1], byte_order).err, 0)
    /\ UNCHANGED <<ty, value, byte_order, origin, wire, hints, rpos, dstate, tag, mw>>

\* the writer is byte aligned and its bytes are the data
AlignBits ==
    /\ phase = "walign"
    /\ wire' = PackBits(byte_align(acc), byte_order)
    /\ phase' = "written"
    /\ UNCHANGED <<ty, value, byte_order, origin, acc, hints, rpos, result, dstate, tag, mw>>

\* a bit reader over the bytes
FromBits ==
    /\ phase = "written"
    /\ acc' = BitsOfBytes(wire, byte_order)
    /\ rpos' = 0
    /\ phase' = "rflag"
    /\ UNCHANGED <<ty, value, byte_order, origin, wire, hints, result, dstate, tag, mw>>

\* the reader after the flag's read returned r: a failure and None are returned at once
ReadFlagOutcome(r) ==
    IF ~r.ok
    THEN /\ result' = r
         /\ rpos' = rpos
         /\ phase' = "done"
    ELSE IF ~r.val
    THEN /\ result' = ROk(<<>>, r.pos)
         /\ rpos' = r.pos
         /\ phase' = "done"
    ELSE /\ result' = result
         /\ rpos' = r.pos
         /\ phase' = "rsome"

\* read_field: the presence flag
ReadFlag ==
    /\ phase = "rflag"
    /\ ReadFlagOutcome(read_flag(ty, acc, rpos, byte_order))
    /\ UNCHANGED <<ty, value, byte_order, origin, wire, hints, acc, dstate, tag, mw>>

\* read_field: the value after a true flag
ReadSome ==
    /\ phase = "rsome"
    /\ result' = read_some(ty, acc, rpos, byte_order)
    /\ rpos' = IF result'.ok THEN result'.pos ELSE rpos
    /\ phase' = "done"
    /\ UNCHANGED <<ty, value, byte_order, origin, wire, hints, acc, dstate, tag, mw>>

NextBits ==
    \/ WriteFlag
    \/ WriteSome
    \/ AlignBits
    \/ FromBits
    \/ ReadFlag
    \/ ReadSome

SpecBits == InitBits /\ [][NextBits]_vars

----------------------------------------------------------------------------
(* External tagging: strings whose length the caller supplies, strings     *)
(* read to the end of the input, length-prefixed strings, and tagged       *)
(* unions whose discriminant the caller supplies.                          *)

\* <String as ExternallyTaggedRead<Tag, Ctx>>, <String as FlexibleArrayMemberRead>
StrTagged == [k |-> "strtag"]
StrFlex == [k |-> "strflex"]
\* a tagged union read through ExternallyTaggedRead<__Tag, __Ctx>
Tagged(e) == [k |-> "tagged", e |-> e]

\* the longest string body enumerated
MaxStr == 3

\* a conversion that never fails
try_into_any(w, t) == TRUE

\* tag.try_into() to an unsigned integer of w bytes (w = 0: usize); four
\* bytes and more hold every non-negative tag enumerated
try_into_ok(w, t) == t >= 0 /\ (w \in 1..3 => t < 256 ^ w)

\* read_items_to_eof: elements of one byte until the input ends
read_items_to_eof(buf, pos) == ROk(SubSeq(buf, pos + 1, Len(buf)), Len(buf))

\* the bytes of the string: read_items(tag.try_into()?), read_items_to_eof,
\* or the length-prefixed list of bytes
read_string_bytes(t, n, h, buf, pos, ord) ==
    CASE t.k = "strtag" -> read_items(U8, n, <<>>, buf, pos, ord)
      [] t.k = "strflex" -> read_items_to_eof(buf, pos)
      [] t.k = "str" -> read_list_ext(SizeType, U8, h, buf, pos, ord)

\* a from_utf8 that accepts every byte sequence
from_utf8_any(b, pos) == ROk(b, pos)

\* Ok(String::from_utf8(bytes)?)
from_utf8(b, pos) == IF from_utf8_ok(b) THEN ROk(b, pos) ELSE RErr("Utf8", 0)

\* ExternallyTaggedWrite / the plain write of the string: the bytes, after
\* their count for the length-prefixed string
write_string(t, v, h, ord) ==
    IF t.k = "str" THEN write_list_ext(SizeType, U8, v, h, ord)
    ELSE write_items(U8, v, 1, ord)

\* the externally tagged write of a union: the variant's fields, no tag
write_tagged(t, v, ord) ==
    WriteFields(t.e.variants[v.variant].named, t.e.variants[v.variant].fields,
                v.fields, 0, begin_fields(DefaultHints), ord)

\* the tag the caller holds for a value it wrote
TagOf(t, v) ==
    CASE t.k = "strtag" -> Len(v)
      [] t.k = "tagged" -> DiscriminantOf(t.e.variants, v.variant)
      [] OTHER -> 0

\* bytes of string bodies: 'a', a lone continuation byte, and the two
\* bytes of U+00E9
StrWireBytes == {97, 128, 195, 169}
\* the strings a writer can hold
StringVals == {b \in BSeq(StrWireBytes, MaxStr) : from_utf8_ok(b)}
\* tags a caller may supply: negative, within and beyond the input, and
\* beyond one byte
TagVals == (-1..(MaxStr + 1)) \cup {256}

TaggedTypes == <<StrTagged, StrFlex, Str, Tagged(WithCustomRepr), Tagged(BoatKind)>>

TaggedValues(t) == IF t.k = "tagged" THEN ValuesOf(t.e) ELSE StringVals

TaggedWires(t) ==
    CASE t.k = "tagged" -> BSeq(RawBytes, 2)
      [] t.k = "str" -> {IntBytes(n, 4, o) \o b :
                            n \in 0..MaxStr, o \in ByteOrders, b \in BSeq(StrWireBytes, MaxStr)}
      [] OTHER -> BSeq(StrWireBytes, MaxStr)

InitTagged ==
    /\ byte_order \in ByteOrders
    /\ \E i \in 1..Len(TaggedTypes) :
          /\ ty = TaggedTypes[i]
          /\ \/ /\ origin = "value"
                /\ value \in TaggedValues(TaggedTypes[i])
                /\ wire = <<>>
                /\ phase = "write"
                /\ tag = NoTag
             \/ /\ origin = "raw"
                /\ value = <<>>
                /\ wire \in TaggedWires(TaggedTypes[i])
                /\ phase = "written"
                /\ tag \in {[raw |-> t, variant |-> 0] :
                              t \in IF TaggedTypes[i].k \in {"strtag", "tagged"}
                                    THEN TagVals ELSE {0}}
          /\ hints = FreshHints(TaggedTypes[i])
    /\ acc = <<>>
    /\ rpos = 0
    /\ result = NoResult
    /\ dstate = "Unresolved"
    /\ mw = MwIdle

\* the caller writes the value and keeps its tag
WriteTagged ==
    /\ phase = "write"
    /\ WriteOutcome(IF ty.k = "tagged" THEN write_tagged(ty, value, byte_order)
                    ELSE write_string(ty, value, hints, byte_order))
    /\ tag' = [raw |-> TagOf(ty, value), variant |-> 0]
    /\ UNCHANGED <<ty, value, byte_order, origin, hints, acc, rpos, dstate, mw>>

\* tag.try_into().map_err(|_| Error::TagConvert)?
ConvertTag ==
    /\ phase = "read"
    /\ ty.k \in {"strtag", "tagged"}
    /\ IF try_into_ok(IF ty.k = "tagged" THEN ty.e.dw ELSE 0, tag.raw)
       THEN /\ phase' = "tagged"
            /\ dstate' = "TagKnown"
            /\ result' = result
       ELSE /\ phase' = "done"
            /\ dstate' = dstate
            /\ result' = RErr("TagConvert", 0)
    /\ UNCHANGED <<ty, value, byte_order, origin, wire, hints, acc, rpos, tag, mw>>

\* the reader after the bytes of the string were read with result r
ReadBytesOutcome(r) ==
    IF r.ok
    THEN /\ acc' = r.val
         /\ rpos' = r.pos
         /\ phase' = "utf8"
         /\ result' = result
    ELSE /\ acc' = acc
         /\ rpos' = rpos
         /\ phase' = "done"
         /\ result' = r

\* the bytes of the string are read
ReadBytes ==
    /\ \/ phase = "tagged" /\ ty.k = "strtag"
       \/ phase = "read" /\ ty.k \in {"strflex", "str"}
    /\ ReadBytesOutcome(read_string_bytes(ty, tag.raw, hints, wire, rpos, byte_order))
    /\ UNCHANGED <<ty, value, byte_order, origin, wire, hints, dstate, tag, mw>>

\* String::from_utf8 over the bytes read
FromUtf8 ==
    /\ phase = "utf8"
    /\ phase' = "done"
    /\ result' = from_utf8(acc, rpos)
    /\ UNCHANGED <<ty, value, byte_order, origin, wire, hints, acc, rpos, dstate, tag, mw>>

\* the variant the converted tag selects is read
ReadTaggedVariant ==
    /\ phase = "tagged"
    /\ ty.k = "tagged"
    /\ result' = read_resolved(ty.e, resolve_variant(ty.e, tag.raw), tag.raw, wire, rpos,
                               byte_order)
    /\ rpos' = IF result'.ok THEN result'.pos ELSE rpos
    /\ dstate' = IF result'.ok THEN "VariantResolved" ELSE dstate
    /\ tag' = [tag EXCEPT !.variant = resolve_variant(ty.e, tag.raw)]
    /\ phase' = "done"
    /\ UNCHANGED <<ty, value, byte_order, origin, wire, hints, acc, mw>>

NextTagged ==
    \/ WriteTagged
    \/ FromBytes
    \/ ConvertTag
    \/ ReadBytes
    \/ FromUtf8
    \/ ReadTaggedVariant

SpecTagged == InitTagged /\ [][NextTagged]_vars

----------------------------------------------------------------------------
(* String-tagged unions: #[protocol(discriminant = "string")].  A name is  *)
(* the sequence of its bytes.                                              *)

StrEnumOf(vs) == [k |-> "senum", variants |-> vs]

\* "X", "Y", "Other", "Hello", "World", "Universe"
NameX == <<88>>
NameY == <<89>>
NameOther == <<79, 116, 104, 101, 114>>
NameHello == <<72, 101, 108, 108, 111>>
NameWorld == <<87, 111, 114, 108, 100>>
NameUniverse == <<85, 110, 105, 118, 101, 114, 115, 101>>
\* no discriminant attribute on the variant
NoName == <<>>

\* enum Axis { X, Y, Other(String) } (Z and Bimp left out)
Axis ==
    StrEnumOf(<<Variant(NameX, NoName, TRUE, <<>>),
                Variant(NameY, NoName, TRUE, <<>>),
                Variant(NameOther, NoName, FALSE, <<Field("0", Str, NoAttr)>>)>>)

\* enum RenamedVariant { Hello, #[protocol(discriminant("Universe"))] World }
RenamedVariant ==
    StrEnumOf(<<Variant(NameHello, NoName, TRUE, <<>>),
                Variant(NameWorld, NameUniverse, TRUE, <<>>)>>)

\* a variant tagged with its own name whatever its attribute says
variant_name(vs, k) == vs[k].name

\* the string a variant is tagged with: the discriminant attribute's, or
\* the variant's name
discriminant_string(vs, k) == IF vs[k].disc # NoName THEN vs[k].disc ELSE vs[k].name

\* the first variant tagged with the string read, or 0
resolve_name(t, name) ==
    IF \A k \in 1..Len(t.variants) : discriminant_string(t.variants, k) # name THEN 0
    ELSE CHOOSE k \in 1..Len(t.variants) :
            /\ discriminant_string(t.variants, k) = name
            /\ \A j \in 1..(k - 1) : discriminant_string(t.variants, j) # name

NameTypes == <<Axis, RenamedVariant>>

NameValues(t) ==
    UNION {{[variant |-> k, fields |-> fv] : fv \in FieldValues(t.variants[k].fields, 1)} :
           k \in 1..Len(t.variants)}

\* buffers a peer may send: a length-prefixed tag (a name of some variant,
\* of a variant of another union, of no variant, bytes that are no
\* string) and what follows it, and buffers too short for a tag
NameWires ==
    {IntBytes(Len(n), 4, o) \o n \o rest :
        n \in {NameX, NameY, NameOther, NameHello, NameWorld, NameUniverse, <<90>>, <<128>>},
        o \in ByteOrders,
        rest \in BSeq({0, 1, 97}, MaxWire)}
    \cup BSeq(RawBytes, 2)

InitNames ==
    /\ byte_order \in ByteOrders
    /\ \E i \in 1..Len(NameTypes) :
          /\ ty = NameTypes[i]
          /\ \/ /\ origin = "value"
                /\ value \in NameValues(NameTypes[i])
                /\ wire = <<>>
                /\ phase = "write"
             \/ /\ origin = "raw"
                /\ value = <<>>
                /\ wire \in NameWires
                /\ phase = "written"
    /\ hints = DefaultHints
    /\ acc = <<>>
    /\ rpos = 0
    /\ result = NoResult
    /\ dstate = "Unresolved"
    /\ tag = NoTag
    /\ mw = MwIdle

\* write: the tag, a length-prefixed string
WriteName ==
    /\ phase = "write"
    /\ wire' = wire \o Write(Str, discriminant_string(ty.variants, value.variant),
                              byte_order).bytes
    /\ phase' = "wfields"
    /\ dstate' = "TagKnown"
    /\ UNCHANGED <<ty, value, byte_order, origin, hints, acc, rpos, result, tag, mw>>

\* write: the variant's fields
WriteNamedVariant ==
    /\ phase = "wfields"
    /\ WriteOutcome(WriteFields(ty.variants[value.variant].named,
                                ty.variants[value.variant].fields, value.fields, 0,
                                begin_fields(DefaultHints), byte_order))
    /\ dstate' = "Unresolved"
    /\ UNCHANGED <<ty, value, byte_order, origin, hints, acc, rpos, tag, mw>>

\* the reader after the tag's read returned r
ReadNameOutcome(r) ==
    IF r.ok
    THEN /\ acc' = r.val
         /\ rpos' = r.pos
         /\ dstate' = "TagKnown"
         /\ phase' = "resolve"
         /\ result' = result
    ELSE /\ acc' = acc
         /\ rpos' = rpos
         /\ dstate' = "Failed"
         /\ phase' = "done"
         /\ result' = r

\* read: the tag, a length-prefixed string
ReadName ==
    /\ phase = "read"
    /\ ReadNameOutcome(Read(Str, wire, rpos, byte_order))
    /\ UNCHANGED <<ty, value, byte_order, origin, wire, hints, tag, mw>>

\* read: the variant tagged with the string, or UnknownDiscriminant
ResolveName ==
    /\ phase = "resolve"
    /\ IF resolve_name(ty, acc) = 0
       THEN /\ phase' = "done"
            /\ dstate' = "Failed"
            /\ result' = RErr("UnknownDiscriminant", 0)
            /\ tag' = tag
       ELSE /\ phase' = "rfields"
            /\ dstate' = dstate
            /\ result' = result
            /\ tag' = [raw |-> 0, variant |-> resolve_name(ty, acc)]
    /\ UNCHANGED <<ty, value, byte_order, origin, wire, hints, acc, rpos, mw>>

\* read: the resolved variant's fields
ReadNamedVariant ==
    /\ phase = "rfields"
    /\ result' = read_variant(ty, tag.variant, wire, rpos, byte_order)
    /\ rpos' = IF result'.ok THEN result'.pos ELSE rpos
    /\ dstate' = IF result'.ok THEN "VariantResolved" ELSE "Failed"
    /\ phase' = "done"
    /\ UNCHANGED <<ty, value, byte_order, origin, wire, hints, acc, tag, mw>>

NextNames ==
    \/ WriteName
    \/ WriteNamedVariant
    \/ FromBytes
    \/ ReadName
    \/ ResolveName
    \/ ReadNamedVariant

SpecNames == InitNames /\ [][NextNames]_vars

-----------------------------------------------------------------------------
(* The read-back loop specification: the Bytes branch of read_list_ext,    *)
(* one iteration of its while loop per step. `acc` holds the bytes read    *)
(* back, `rpos` the position in them, `value` the items pushed so far.     *)

\* struct Handshake; a unit struct, its read consumes nothing
Handshake == StructOf(TRUE, <<>>)

\* struct { len: u8, #[protocol(length_prefix(bytes(len)))] items: Vec<E> }
BytesPrefixed(e) ==
    StructOf(TRUE, <<Field("len", U8, NoAttr),
                     Field("items", VecOf(e), LengthPrefix("Bytes", "len"))>>)

\* the number of items the model keeps of an items vector that grows
\* without end
MaxItems == 6

LoopTypes == <<BytesPrefixed(U8), BytesPrefixed(U16), BytesPrefixed(Handshake)>>

\* the element type T of the list being read
LoopElement == ty.fields[2].ty.e

InitLoop ==
    /\ byte_order \in ByteOrders
    /\ \E i \in 1..Len(LoopTypes) : ty = LoopTypes[i]
    /\ origin = "raw"
    /\ value = <<>>
    /\ wire \in BSeq(RawBytes, MaxWire)
    /\ phase = "written"
    /\ hints = DefaultHints
    /\ acc = <<>>
    /\ rpos = 0
    /\ result = NoResult
    /\ dstate = "Unresolved"
    /\ tag = NoTag
    /\ mw = MwIdle

\* the reader after the bytes of the list were read with outcome raw
ReadBackOutcome(raw) ==
    IF raw.ok
    THEN /\ acc' = raw.val
         /\ phase' = "loop"
         /\ UNCHANGED result
    ELSE /\ result' = raw
         /\ phase' = "done"
         /\ UNCHANGED acc

\* the bytes of the list: the len field, then on success
\* read_items(byte_count) collects the bytes without processing them
read_back(buf, ord) ==
    RBind(Read(U8, buf, 0, ord),
          LAMBDA byte_count, p : read_items(U8, byte_count, <<>>, buf, p, ord))

\* from_bytes up to the loop: all bytes of the list, then a reader over
\* those bytes
ReadBack ==
    /\ phase = "written"
    /\ LET raw == read_back(wire, byte_order) IN ReadBackOutcome(raw)
    /\ rpos' = 0
    /\ UNCHANGED <<ty, value, byte_order, origin, wire, hints, dstate, tag, mw>>

\* the loop after T::read returned r: an unexpected end of input panics,
\* any other failure is returned, an item is pushed; of the pushes beyond
\* MaxItems only the parity of their number is kept (in tag.raw)
ParseItemOutcome(r) ==
    IF r.ok
    THEN /\ value' = (IF Len(value) < MaxItems THEN Append(value, r.val) ELSE value)
         /\ tag' = (IF Len(value) < MaxItems THEN tag ELSE [tag EXCEPT !.raw = IF tag.raw = 0 THEN 1 ELSE 0])
         /\ rpos' = r.pos
         /\ UNCHANGED <<phase, result>>
    ELSE /\ result' = (IF r.err = "Io" THEN RErr(Panic, 0) ELSE r)
         /\ phase' = "done"
         /\ UNCHANGED <<value, rpos, tag>>

\* one iteration of the while loop: the position is before the byte count
ParseItem ==
    /\ phase = "loop"
    /\ rpos < Len(acc)
    /\ ParseItemOutcome(Read(LoopElement, acc, rpos, byte_order))
    /\ UNCHANGED <<ty, byte_order, origin, wire, hints, acc, dstate, mw>>

\* the loop's exit: the position reached the byte count, Ok(items)
LoopExit ==
    /\ phase = "loop"
    /\ rpos >= Len(acc)
    /\ result' = ROk(<<Len(acc), value>>, 1 + Len(acc))
    /\ phase' = "done"
    /\ UNCHANGED <<ty, value, byte_order, origin, wire, hints, acc, rpos, dstate, tag, mw>>

NextLoop ==
    \/ ReadBack
    \/ ParseItem
    \/ LoopExit

SpecLoop == InitLoop /\ [][NextLoop]_vars

\* the thread inside the while loop keeps running: an iteration or the
\* exit that stays possible is eventually taken
SpecLoopFair == SpecLoop /\ WF_vars(ParseItem \/ LoopExit)

-----------------------------------------------------------------------------
(* The nested sequence specification: a Vec<Vec<u8>> on its own and as a   *)
(* field under a length descriptor, written and read by the codec's steps. *)

\* struct { count: u8, #[protocol(length_prefix(elements(count)))] rows: Vec<Vec<u8>> }
NestedByElements ==
    StructOf(TRUE, <<Field("count", U8, NoAttr),
                     Field("rows", VecOf(VecOf(U8)), LengthPrefix("Elements", "count"))>>)

\* struct { len: u8, #[protocol(length_prefix(bytes(len)))] rows: Vec<Vec<u8>> }
NestedByBytes ==
    StructOf(TRUE, <<Field("len", U8, NoAttr),
                     Field("rows", VecOf(VecOf(U8)), LengthPrefix("Bytes", "len"))>>)

NestedTypes == <<VecOf(VecOf(U8)), NestedByElements, NestedByBytes>>

\* the rows enumerated, and the values of the source field: counts that
\* agree and disagree with the rows, in elements and in bytes
RowVals == BSeq(BSeq({1, 2}, MaxLen), MaxLen)
NestedCounts == {0, 1, 2, 5, 9}

NestedValues(t) ==
    IF t.k = "struct" THEN {<<n, rows>> : n \in NestedCounts, rows \in RowVals}
    ELSE RowVals

InitNested ==
    /\ byte_order \in ByteOrders
    /\ \E i \in 1..Len(NestedTypes) :
          /\ ty = NestedTypes[i]
          /\ \/ /\ origin = "value"
                /\ value \in NestedValues(NestedTypes[i])
                /\ wire = <<>>
                /\ phase = "write"
             \/ /\ origin = "raw"
                /\ value = <<>>
                /\ wire \in BSeq(RawBytes, MaxWire)
                /\ phase = "written"
          /\ hints = FreshHints(NestedTypes[i])
    /\ acc = <<>>
    /\ rpos = 0
    /\ result = NoResult
    /\ dstate = "Unresolved"
    /\ tag = NoTag
    /\ mw = MwIdle

SpecNested == InitNested /\ [][Next]_vars

----------------------------------------------------------------------------
(* The middleware specification: a pipeline encodes a buffer stage by      *)
(* stage, then decodes what it encoded stage by stage.                     *)

\* RotateMiddleware { offset }
RotateMiddleware(offset) == [kind |-> "rotate", offset |-> offset]
\* a stage that rotates each byte's bits left by one on encode
RotateBits == [kind |-> "rotl", offset |-> 1]

\* RotateMiddleware::rot13()
rot13 == RotateMiddleware(13)

\* u8::rotate_left(1) and u8::rotate_right(1)
rotate_left(b) == ((b * 2) % 256) + (b \div 128)
rotate_right(b) == (b \div 2) + ((b % 2) * 128)

\* Middleware::encode_data of one stage
encode_data(stage, data) ==
    IF stage.kind = "rotate"
    THEN [i \in 1..Len(data) |-> (data[i] + stage.offset) % 256]
    ELSE [i \in 1..Len(data) |-> rotate_left(data[i])]

\* Middleware::decode_data of one stage
decode_data(stage, data) ==
    IF stage.kind = "rotate"
    THEN [i \in 1..Len(data) |-> (data[i] + 256 - stage.offset) % 256]
    ELSE [i \in 1..Len(data) |-> rotate_right(data[i])]

\* define_middleware_pipeline!(Pipeline { rot: RotateMiddleware }), new() = rot13
Pipeline == <<rot13>>
\* stage A adds 1 to every byte, stage B rotates each byte's bits left by 1
PipelineAB == <<RotateMiddleware(1), RotateBits>>
\* two stages of the same kind
PipelineRotRot == <<RotateMiddleware(1), rot13>>

Pipelines == {Pipeline, PipelineAB, PipelineRotRot}

\* the buffers handed to the pipeline: every single byte, the empty buffer
\* and the two-byte buffers over a few bytes
MwBuffers == BSeq(0..255, 1) \cup [1..2 -> {0, 127, 128, 255}]

InitMw ==
    /\ ty = U8
    /\ value = 0
    /\ byte_order \in ByteOrders
    /\ origin = "value"
    /\ phase = "done"
    /\ wire = <<>>
    /\ hints = DefaultHints
    /\ acc = <<>>
    /\ rpos = 0
    /\ result = NoResult
    /\ dstate = "Unresolved"
    /\ tag = NoTag
    /\ \E p \in Pipelines, b \in MwBuffers :
          mw = [phase |-> "encode", pipeline |-> p, input |-> b, data |-> b, stage |-> 1]

codec_vars == <<ty, value, byte_order, origin, phase, wire, hints, acc, rpos, result, dstate, tag>>

\* Pipeline::encode_data: the next stage's encode_data, in declared order
EncodeStage ==
    /\ mw.phase = "encode"
    /\ mw.stage <= Len(mw.pipeline)
    /\ mw' = [mw EXCEPT !.data = encode_data(mw.pipeline[mw.stage], mw.data),
                        !.stage = mw.stage + 1]
    /\ UNCHANGED codec_vars

\* the encoded buffer is handed to Pipeline::decode_data
BeginDecode ==
    /\ mw.phase = "encode"
    /\ mw.stage > Len(mw.pipeline)
    /\ mw' = [mw EXCEPT !.phase = "decode", !.stage = 1]
    /\ UNCHANGED codec_vars

\* Pipeline::decode_data: the next stage's decode_data, in the same declared order
DecodeStage ==
    /\ mw.phase = "decode"
    /\ mw.stage <= Len(mw.pipeline)
    /\ mw' = [mw EXCEPT !.data = decode_data(mw.pipeline[mw.stage], mw.data),
                        !.stage = mw.stage + 1]
    /\ UNCHANGED codec_vars

\* every stage has decoded: the buffer is returned
FinishDecode ==
    /\ mw.phase = "decode"
    /\ mw.stage > Len(mw.pipeline)
    /\ mw' = [mw EXCEPT !.phase = "done"]
    /\ UNCHANGED codec_vars

NextMw ==
    \/ EncodeStage
    \/ BeginDecode
    \/ DecodeStage
    \/ FinishDecode

SpecMw == InitMw /\ [][NextMw]_vars

----------------------------------------------------------------------------
(* The datagram specification: send_to writes one packet into a sink,      *)
(* receive_from reads one packet from a buffer holding a whole datagram.   *)

\* Pipeline::encode_data / Pipeline::decode_data: every stage from the
\* i-th on, in declared order
RECURSIVE encode_pipeline(_, _, _), decode_pipeline(_, _, _)
encode_pipeline(p, i, data) ==
    IF i > Len(p) THEN data ELSE encode_pipeline(p, i + 1, encode_data(p[i], data))
decode_pipeline(p, i, data) ==
    IF i > Len(p) THEN data ELSE decode_pipeline(p, i + 1, decode_data(p[i], data))

\* io::Write::write(&bytes): the sink takes the first bytes offered, as
\* many as it accepts in one call, and reports how many it took
sink_write(accept, b) == SubSeq(b, 1, IF accept < Len(b) THEN accept ELSE Len(b))

\* the packets sent, and what the sinks written to accept per write call:
\* one byte, two bytes, or whatever is offered (a Cursor over a Vec)
DgramTypes == <<Ping, Pair, BoatKind>>
SinkAccepts == {1, 2, 64}
\* the middlewares of the datagram pipelines
DgramPipelines == {Pipeline, PipelineRotRot}

InitDgram ==
    /\ byte_order \in ByteOrders
    /\ \E i \in 1..Len(DgramTypes) :
          /\ ty = DgramTypes[i]
          /\ \/ /\ origin = "value"
                /\ value \in ValuesOf(DgramTypes[i])
                /\ wire = <<>>
                /\ phase = "send"
                /\ \E p \in DgramPipelines, n \in SinkAccepts :
                      mw = [phase |-> "idle", pipeline |-> p, input |-> <<>>, data |-> <<>>,
                            stage |-> 1, accept |-> n]
             \/ /\ origin = "raw"
                /\ value = <<>>
                /\ phase = "sent"
                /\ \E p \in DgramPipelines, w \in CodecWires(DgramTypes[i]) :
                      /\ wire = encode_pipeline(p, 1, w)
                      /\ mw = [phase |-> "idle", pipeline |-> p, input |-> <<>>,
                               data |-> <<>>, stage |-> 1, accept |-> 64]
          /\ hints = FreshHints(DgramTypes[i])
    /\ acc = <<>>
    /\ rpos = 0
    /\ result = NoResult
    /\ dstate = "Unresolved"
    /\ tag = NoTag

\* send_to: self.middleware.encode_data(packet.bytes()?)?
SendEncode ==
    /\ phase = "send"
    /\ IF bytes(ty, value, byte_order).ok
       THEN /\ phase' = "sink"
            /\ mw' = [mw EXCEPT !.input = bytes(ty, value, byte_order).bytes,
                                !.data = encode_pipeline(mw.pipeline, 1,
                                                         bytes(ty, value, byte_order).bytes)]
            /\ result' = result
       ELSE /\ phase' = "wfail"
            /\ mw' = mw
            /\ result' = RErr(bytes(ty, value, byte_order).err, 0)
    /\ UNCHANGED <<ty, value, byte_order, origin, wire, hints, acc, rpos, dstate, tag>>

\* send_to: buffer.write(&bytes)?; Ok(())
SinkWrite ==
    /\ phase = "sink"
    /\ wire' = wire \o sink_write(mw.accept, mw.data)
    /\ phase' = "sent"
    /\ UNCHANGED <<ty, value, byte_order, origin, hints, acc, rpos, result, dstate, tag, mw>>

\* receive_from: buffer.bytes().collect()
ReceiveCollect ==
    /\ phase = "sent"
    /\ acc' = wire
    /\ rpos' = Len(wire)
    /\ phase' = "decode"
    /\ UNCHANGED <<ty, value, byte_order, origin, wire, hints, result, dstate, tag, mw>>

\* receive_from: Cursor::new(self.middleware.decode_data(raw_bytes)?)
ReceiveDecode ==
    /\ phase = "decode"
    /\ acc' = decode_pipeline(mw.pipeline, 1, acc)
    /\ phase' = "parse"
    /\ UNCHANGED <<ty, value, byte_order, origin, wire, hints, rpos, result, dstate, tag, mw>>

\* receive_from: P::read(&mut bytes)
ReceiveParse ==
    /\ phase = "parse"
    /\ result' = Read(ty, acc, 0, byte_order)
    /\ phase' = "done"
    /\ UNCHANGED <<ty, value, byte_order, origin, wire, hints, acc, rpos, dstate, tag, mw>>

NextDgram ==
    \/ SendEncode
    \/ SinkWrite
    \/ ReceiveCollect
    \/ ReceiveDecode
    \/ ReceiveParse

SpecDgram == InitDgram /\ [][NextDgram]_vars

----------------------------------------------------------------------------
(* Properties of the codec specification (Spec).                           *)

\* the length of a field's value in bytes: its elements are integers of a
\* fixed width, or the bytes of a string
LengthInBytes(ft, x) == IF ft.k = "vec" THEN Len(x) * Width(ft.e) ELSE Len(x)

\* every length-prefix source field of the aggregate value v holds the real
\* length of its target field, in the declared unit
Consistent(t, v) ==
    (t.k = "struct" /\ t.named) =>
        \A j \in 1..Len(t.fields) : \A s \in 1..Len(t.fields) :
            (t.fields[j].lp.has /\ t.fields[s].name = t.fields[j].lp.src) =>
                v[s] = IF t.fields[j].lp.kind = "Elements"
                       THEN Len(v[j])
                       ELSE LengthInBytes(t.fields[j].ty, v[j])

RECURSIVE ElementsOnly(_, _)
ElementsOnly(items, ord) ==
    IF items = <<>> THEN <<>>
    ELSE (IF ord = "BigEndian"
          THEN <<Head(items) \div 256, Head(items) % 256>>
          ELSE <<Head(items) % 256, Head(items) \div 256>>) \o ElementsOnly(Tail(items), ord)

\* the aggregates whose sequence field has its length in a sibling field
HasDisjointPrefix == ty \in {PrefixedByElements, PrefixedByBytes}

C3_BudgetMismatchIsReturned ==
    (phase = "done" /\ ty = PrefixedByBytes /\ Len(wire) >= 1 /\ wire[1] % 2 = 1) =>
        (~result.ok /\ result.err # Panic)

\* the top-level value is a fixed-size array, and the bytes of its N
\* elements
IsArray == ty.k = "arr"
ArrayBytes == ty.n * Width(ty.e)
\* the i-th element encoded in the buffer
ElementAt(i) == IntOf(SubSeq(wire, (i - 1) * Width(ty.e) + 1, i * Width(ty.e)), byte_order)

\* C20: a fixed-size array of N elements is written as exactly the N
\* element encodings in order with no length prefix; read consumes exactly
\* N elements and returns them in order, and when fewer than N elements
\* are available in the stream the read returns an error (the assertion on
\* the number of elements read never fires).
C20_FixedArray ==
    IsArray =>
        /\ ((origin = "value" /\ phase = "written") =>
              /\ Len(wire) = ArrayBytes
              /\ \A i \in 1..ty.n : ElementAt(i) = value[i])
        /\ ((phase = "done" /\ Len(wire) >= ArrayBytes) =>
              /\ result.ok
              /\ Len(result.val) = ty.n
              /\ \A i \in 1..ty.n : result.val[i] = ElementAt(i)
              /\ rpos = ArrayBytes)
        /\ ((phase = "done" /\ Len(wire) < ArrayBytes) =>
              (~result.ok /\ result.err = "Io"))
        /\ ((phase = "done" /\ origin = "value") => (result.ok /\ result.val = value))

C20_Witness ==
    /\ ty = ArrOf(2, U16)
    /\ origin = "raw"
    /\ phase = "done"
    /\ wire = <<0, 1, 2>>
    /\ ~result.ok
    /\ result.err = "Io"

----------------------------------------------------------------------------
(* Properties of the discriminant specification (SpecEnum).                *)

\* no variant of the union has the discriminant d
Unmapped(t, d) == \A k \in 1..Len(t.variants) : DiscriminantOf(t.variants, k) # d

\* a read that ended on a discriminant no variant has: the error carries
\* the raw value, no field was read, no variant was resolved
C4_Failed ==
    (phase = "done" /\ tag.raw # -1 /\ Unmapped(ty, tag.raw)) =>
        /\ ~result.ok
        /\ result.err = "UnknownDiscriminant"
        /\ result.info = tag.raw
        /\ dstate = "Failed"
        /\ tag.variant = 0
        /\ acc = <<>>
        /\ rpos = ty.dw

\* the step taken from TagKnown on a discriminant no variant has
C4_Step ==
    (dstate = "TagKnown" /\ Unmapped(ty, tag.raw)) =>
        /\ dstate' = "Failed"
        /\ result' = RErr("UnknownDiscriminant", tag.raw)
        /\ phase' = "done"
        /\ acc' = acc
        /\ rpos' = rpos

\* C4: reading an internally tagged union whose discriminant read from the
\* stream matches no variant fails with UnknownDiscriminant carrying the
\* raw value; no variant field is read, no variant value is returned, and
\* the resolution never passes from TagKnown to VariantResolved.
C4_UnknownDiscriminant == [](C4_Failed) /\ [][C4_Step]_vars

C4_Witness ==
    /\ phase = "done"
    /\ ty = BoatKind
    /\ byte_order = "BigEndian"
    /\ wire = <<99, 99, 88, 11, 13>>
    /\ dstate = "Failed"
    /\ result.err = "UnknownDiscriminant"
    /\ result.info = 1667454987

\* no variant of the union declares a discriminant
NoExplicit(t) == \A k \in 1..Len(t.variants) : t.variants[k].disc = -1

\* the integer k < 256 in n bytes
TagBytes(k, n, ord) ==
    [i \in 1..n |-> IF i = (IF ord = "BigEndian" THEN n ELSE 1) THEN k ELSE 0]

\* C5: for an internally integer-tagged union with no explicit
\* discriminant values, the k-th declared variant (k = 1, 2, 3, ...) is
\* assigned discriminant k - it is what is written for the variant and the
\* only value that resolves to it - and no variant is assigned 0.
C5_ImplicitDiscriminants ==
    NoExplicit(ty) =>
        /\ \A k \in 1..Len(ty.variants) :
              DiscriminantOf(ty.variants, k) = k /\ DiscriminantOf(ty.variants, k) # 0
        /\ ((origin = "value" /\ phase \in {"write", "written"} /\ hints.idx >= 0) =>
              SubSeq(wire, 1, ty.dw) = TagBytes(value.variant, ty.dw, byte_order))
        /\ (dstate = "VariantResolved" => (tag.raw = tag.variant /\ tag.raw # 0))
        /\ ((phase = "done" /\ tag.raw = 0) => (~result.ok /\ dstate = "Failed"))

C5_Witness ==
    /\ ty = WithoutExplicitDiscriminants
    /\ origin = "value"
    /\ phase = "written"
    /\ wire = <<1>>

\* the values of BoatKind
Speedboat(warp_speed_enabled) == [variant |-> 1, fields |-> <<warp_speed_enabled>>]
Dingy(a, b) == [variant |-> 2, fields |-> <<a, b>>]
Fart == [variant |-> 3, fields |-> <<>>]

\* the fields of a variant value, one byte each (a bool or a u8)
FieldBytes(v, fs) ==
    [i \in 1..Len(fs) |-> IF v.fields[i].ty.k = "bool" THEN (IF fs[i] THEN 1 ELSE 0) ELSE fs[i]]

\* C6: writing a tagged-union value emits the active variant's discriminant
\* in the declared discriminant width, in the byte order of the settings
\* (32-bit big-endian by default), immediately followed by the variant's
\* fields in declaration order and nothing else: Speedboat{true} encodes as
\* [0,0,0,1,1], Dingy(0xf1,0xed) as [0,0,0,2,0xf1,0xed], Fart as [0,0,0,3],
\* and each encoding decodes back to the original value.
C6_WireLayout ==
    /\ ((origin = "value" /\ phase = "written") =>
          wire = IntBytes(DiscriminantOf(ty.variants, value.variant), ty.dw, byte_order)
                 \o FieldBytes(WrittenVariant, value.fields))
    /\ ((origin = "value" /\ phase = "written" /\ ty = BoatKind
            /\ byte_order = "BigEndian") =>
          /\ (value = Speedboat(TRUE) => wire = <<0, 0, 0, 1, 1>>)
          /\ (value = Dingy(241, 237) => wire = <<0, 0, 0, 2, 241, 237>>)
          /\ (value = Fart => wire = <<0, 0, 0, 3>>))
    /\ ((origin = "value" /\ phase = "done") => (result.ok /\ result.val = value))
    /\ ((phase = "done" /\ ty = BoatKind /\ byte_order = "BigEndian") =>
          /\ (wire = <<0, 0, 0, 1, 1>> => (result.ok /\ result.val = Speedboat(TRUE)))
          /\ (wire = <<0, 0, 0, 2, 99, 78>> => (result.ok /\ result.val = Dingy(99, 78)))
          /\ (wire = <<0, 0, 0, 3>> => (result.ok /\ result.val = Fart)))

C6_Witness ==
    /\ phase = "done"
    /\ origin = "value"
    /\ ty = BoatKind
    /\ wire = <<0, 0, 0, 2, 241, 237>>
    /\ dstate = "VariantResolved"
    /\ result.ok
    /\ result.val = Dingy(241, 237)

----------------------------------------------------------------------------
(* Properties of the alignment specification (SpecAligned).                *)

\* the Aligned<T, U> of the state: the top-level value, or the field of Packet
AlignedField == IF ty.k = "aligned" THEN ty ELSE ty.fields[2].ty
AlignedUnit == AlignedField.u

\* the bytes written before the aligned value, the aligned value written,
\* and its inner encoding (on the length-prefixed path, the bytes of the
\* string with no prefix)
BeforeAligned == IF ty.k = "aligned" THEN <<>> ELSE <<value[1]>>
AlignedValue == IF ty.k = "aligned" THEN value ELSE value[2]
InnerEncoding ==
    IF ty.k = "aligned" THEN bytes(ty.e, value, byte_order).bytes ELSE value[2]

\* the padding of an encoding of length L to the unit U >= 1
PaddingFor(U, L) == (U - (L % U)) % U

\* C7: for every alignment unit U >= 1 and every inner value whose
\* encoding has length L, the aligned encoding is the inner encoding
\* unchanged followed by exactly (U - L % U) % U zero bytes: its length is
\* the smallest multiple of U that is >= L, and the "failed to align"
\* assertion never fires.
C7_AlignOnWrite ==
    (origin = "value" /\ AlignedUnit >= 1) =>
        /\ phase # "wfail"
        /\ (phase = "written" =>
              /\ wire = BeforeAligned \o InnerEncoding
                        \o Zeros(PaddingFor(AlignedUnit, Len(InnerEncoding)))
              /\ (Len(wire) - Len(BeforeAligned)) % AlignedUnit = 0
              /\ Len(wire) - Len(BeforeAligned) >= Len(InnerEncoding)
              /\ Len(wire) - Len(BeforeAligned) - Len(InnerEncoding) < AlignedUnit)

C7_Witness ==
    /\ origin = "value"
    /\ phase = "written"
    /\ ty = AlignedOf(Str, 3)
    /\ value = <<97>>
    /\ wire = <<0, 0, 0, 1, 97, 0>>

\* the read of the inner value, which the padding follows
InnerRead ==
    IF ty.k = "aligned" THEN Read(ty.e, wire, 0, byte_order)
    ELSE IF wire = <<>> THEN RErr("Io", 0)
    ELSE ReadField(Str, [DefaultHints EXCEPT !.idx = 1,
                                             !.known[1] = FieldLength("Bytes", wire[1])],
                   wire, 1, byte_order)

\* the value the read of the aligned value returned
AlignedResult == IF ty.k = "aligned" THEN result.val ELSE result.val[2]

\* the last position of the padding region: the region follows the inner
\* value and pads the bytes the inner value takes to the unit
PaddingEnd ==
    InnerRead.pos + PaddingFor(AlignedUnit, InnerRead.pos - (IF ty.k = "aligned" THEN 0 ELSE 1))

\* C8: after the inner value is read, if any byte in the padding region is
\* non-zero the read fails with NonZeroPad and no Aligned value is
\* returned; if all padding bytes are zero the read succeeds with the
\* inner value.
C8_AlignOnRead ==
    (phase = "done" /\ AlignedUnit >= 1 /\ InnerRead.ok) =>
        /\ ((\E i \in (InnerRead.pos + 1)..PaddingEnd : i <= Len(wire) /\ wire[i] # 0) =>
              (~result.ok /\ result.err = "NonZeroPad"))
        /\ ((PaddingEnd <= Len(wire)
                /\ \A i \in (InnerRead.pos + 1)..PaddingEnd : wire[i] = 0) =>
              (result.ok /\ AlignedResult = InnerRead.val))

\* C9: for every Aligned value, the number of padding bytes the read path
\* expects equals the number of padding bytes the write path appended, on
\* the plain path and on the externally-length-prefixed path; reading an
\* aligned encoding consumes exactly the bytes that were written.
C9_SamePaddingOnBothPaths ==
    (origin = "value" /\ AlignedUnit >= 1 /\ Consistent(ty, value)) =>
        /\ (phase = "written" =>
              read_padding_size(AlignedField, AlignedValue, byte_order)
                  = Len(wire) - Len(BeforeAligned) - Len(InnerEncoding))
        /\ (phase = "done" => (result.ok /\ rpos = Len(wire)))

----------------------------------------------------------------------------
(* Properties of the middleware specification (SpecMw).                    *)

\* C10: for the two-stage pipeline (stage A adds 1 to every byte mod 256,
\* stage B rotates each byte's bits left by 1) and every input buffer, the
\* pipeline's encode (stages in declared order) followed by the pipeline's
\* decode (each stage's decode, in the same declared order) returns the
\* original bytes unchanged.
C10_PipelineRoundTrip ==
    (mw.phase = "done" /\ mw.pipeline = PipelineAB) => mw.data = mw.input

----------------------------------------------------------------------------
(* Properties of the aggregate specification (SpecFields).                 *)

\* the cursor is at a field of the top-level aggregate
AtField == IsStruct /\ hints.idx >= 0 /\ hints.idx < Len(ty.fields)
\* that field, and the hints in effect while it is processed
CurrentField == ty.fields[hints.idx + 1]
FieldHints == update_hints_before(CurrentField, hints)

\* the write and the read of the field the cursor is at
CurrentWrite == WriteField(CurrentField.ty, value[hints.idx + 1], FieldHints, byte_order)
CurrentRead == ReadField(CurrentField.ty, FieldHints, wire, rpos, byte_order)

\* what writing the first n fields of the aggregate value emits
FirstFieldsWritten(n) ==
    WriteFields(ty.named, SubSeq(ty.fields, 1, n), SubSeq(value, 1, n), 0,
                begin_fields(DefaultHints), byte_order)

\* the step taken at a field whose write / read fails returns that failure
\* at once, and nothing is read or written once an operation has failed or
\* returned
C11_Step ==
    /\ (phase = "write" /\ AtField /\ ~CurrentWrite.ok) =>
          /\ phase' = "wfail"
          /\ result' = RErr(CurrentWrite.err, 0)
          /\ wire' = wire
    /\ (phase = "read" /\ AtField /\ ~CurrentRead.ok) =>
          /\ phase' = "done"
          /\ result' = CurrentRead
          /\ acc' = acc
          /\ rpos' = rpos
    /\ (phase \in {"wfail", "done"} => UNCHANGED <<wire, acc, rpos, result, hints>>)

\* a failed write has emitted the fields before the failing one and nothing
\* after them; a failed read returns no value, the fields read before the
\* failure are not handed out; a value is returned only with every field
\* read; the operation as a whole returns what its fields' steps returned
C11_Outcome ==
    /\ (IsStruct /\ phase = "wfail") =>
          /\ ~result.ok
          /\ hints.idx >= 1
          /\ wire = FirstFieldsWritten(hints.idx - 1).bytes
          /\ ~bytes(ty, value, byte_order).ok
          /\ result.err = bytes(ty, value, byte_order).err
    /\ (IsStruct /\ origin = "value" /\ phase = "written") =>
          /\ bytes(ty, value, byte_order).ok
          /\ wire = bytes(ty, value, byte_order).bytes
    /\ (IsStruct /\ phase = "done" /\ ~result.ok) =>
          /\ result.val = <<>>
          /\ Len(acc) = hints.idx - 1
          /\ Len(acc) < Len(ty.fields)
    /\ (IsStruct /\ phase = "done" /\ result.ok) =>
          /\ result.val = acc
          /\ Len(acc) = Len(ty.fields)
    /\ (IsStruct /\ phase = "done") => result = from_bytes(ty, wire, byte_order)
    /\ (~IsStruct /\ phase = "done" /\ ~result.ok) => (result.val = <<>> /\ rpos = 0)

\* C11: fail-fast - when reading or writing an aggregate, the first field
\* whose read / write fails makes the whole operation return that same
\* error; no later field is read or written after the failure, and no
\* partially built aggregate value is ever returned.
C11_FailFast == [](C11_Outcome) /\ [][C11_Step]_vars

C11_Witness ==
    /\ ty = LongList
    /\ origin = "value"
    /\ phase = "wfail"
    /\ Len(value[2]) = 128
    /\ hints.idx = 2
    /\ wire = <<value[1]>>
    /\ result.err = "IntegerConversion"

\* the derive accepted the aggregate definition: its codec runs
Accepted == IsStruct /\ phase \notin {"derive", "rejected"}

\* the 1-based positions of the fields named `name`
PositionsOf(name) == {i \in 1..Len(ty.fields) : ty.fields[i].name = name}

\* C12: in every accepted aggregate definition, a field declared as the
\* length-prefix source of another field is processed strictly before that
\* dependent field, so that whenever the dependent field is read or
\* written its length descriptor has already been stored in the hints.
C12_SourceBeforeTarget ==
    (Accepted /\ ty.named) =>
        /\ \A j \in 1..Len(ty.fields) :
              (ty.fields[j].lp.has /\ PositionsOf(ty.fields[j].lp.src) # {}) =>
                  \E i \in PositionsOf(ty.fields[j].lp.src) : i < j
        /\ ((phase \in {"write", "read"} /\ AtField /\ CurrentField.lp.has
                /\ PositionsOf(CurrentField.lp.src) # {}) =>
              current_field_length(hints).kind = CurrentField.lp.kind)

\* a length_prefix attribute of the aggregate names no sibling field
NamesNoSibling ==
    IsStruct /\ \E j \in 1..Len(ty.fields) :
                   ty.fields[j].lp.has /\ PositionsOf(ty.fields[j].lp.src) = {}

\* C13: a length-prefix declaration that names a sibling field that does
\* not exist in the aggregate is reported as a configuration error before
\* any byte of any stream is consumed or produced, independently of the
\* data.
C13_GhostIsRejected ==
    NamesNoSibling =>
        /\ phase \in {"derive", "rejected"}
        /\ rpos = 0
        /\ (origin = "value" => wire = <<>>)
        /\ (phase = "rejected" => (~result.ok /\ result.err = "InvalidLengthPrefix"))

\* the bytes an integer field takes on the wire under its own declaration
OwnWidth(f) == IF f.bits = 0 THEN Width(f.ty) ELSE f.bits \div 8

\* the steps of the codec at a field of the aggregate
C14_Step ==
    (AtField /\ phase \in {"write", "read"}) =>
        \* the cursor advances by exactly one, the width in effect was the field's own
        /\ hints'.idx = hints.idx + 1
        /\ hints'.field_width = CurrentField.bits
        \* an integer field takes the bytes of its own declared width
        /\ (IsInt(CurrentField.ty) /\ phase' = "write") =>
              Len(wire') - Len(wire) = OwnWidth(CurrentField)
        /\ (IsInt(CurrentField.ty) /\ phase' = "read") => rpos' - rpos = OwnWidth(CurrentField)
        \* a sequence field that is no target sends and reads its own count
        /\ (CurrentField.ty.k = "vec" /\ ~(ty.named /\ CurrentField.lp.has) /\ phase' = "write") =>
              wire' = wire \o IntBytes(Len(value[hints.idx + 1]), 4, byte_order)
                           \o ElementsOnly(value[hints.idx + 1], byte_order)
        /\ (CurrentField.ty.k = "vec" /\ ~(ty.named /\ CurrentField.lp.has) /\ phase' = "read") =>
              /\ rpos + 4 <= Len(wire)
              /\ Len(acc'[Len(acc')]) = IntOf(SubSeq(wire, rpos + 1, rpos + 4), byte_order)
        \* only the descriptors of the aggregate's targets are ever stored
        /\ \A i \in FieldIdx :
              hints'.known[i] # hints.known[i] =>
                  /\ ty.named
                  /\ i + 1 <= Len(ty.fields)
                  /\ ty.fields[i + 1].lp.has
                  /\ ty.fields[i + 1].lp.src = CurrentField.name

\* the descriptor a field sees is the one stored for its own index: a
\* field that is no target sees none
C14_Visible ==
    (AtField /\ phase \in {"write", "read"}) =>
        /\ current_field_length(hints) = hints.known[hints.idx]
        /\ (current_field_length(hints).kind # "None" =>
              (ty.named /\ CurrentField.lp.has
                  /\ current_field_length(hints).kind = CurrentField.lp.kind))

\* C14: hints scoping across the fields of one aggregate - at the moment
\* any field is read or written, the bit-width hint in effect is that
\* field's own declared width (or none if it declares none), never a
\* previous field's; a length descriptor stored for a target field is
\* visible only while that target field is processed, never to any field
\* after it; the field cursor advances by exactly one after each field.
C14_HintsScoping == [](C14_Visible) /\ [][C14_Step]_vars

C14_Witness ==
    /\ ty = WithBits
    /\ origin = "value"
    /\ phase = "written"
    /\ byte_order = "BigEndian"
    /\ value = <<1, 258, 258>>
    /\ wire = <<1, 1, 2, 1, 2>>
    /\ hints.idx = 3

\* the top-level value is a growable sequence (of u16), read and written
\* with no length descriptor in the hints
IsSequence == ty.k \in {"vec", "vecs"}
\* its prefix integer type S, and the count at the head of the buffer
PrefixOf(t) == IF t.k = "vec" THEN SizeType ELSE t.s
CountRead == IntOf(SubSeq(wire, 1, PrefixOf(ty).w), byte_order)
\* the largest count of the prefix integer type S (of one byte), and
\* whether the count at the head of the buffer is one
MaxCount(s) == IF s.signed THEN 127 ELSE 255
CountIsValid == PrefixOf(ty).w = 4 \/ CountRead <= MaxCount(PrefixOf(ty))

\* C16: when no length descriptor is present in the hints, a growable
\* sequence of n elements is written as its element count n in the prefix
\* integer type S (32-bit unsigned by default) followed by exactly the n
\* elements in order, and is read by reading a count of type S and then
\* exactly that many elements.
C16_SelfPrefixed ==
    IsSequence =>
        /\ ((origin = "value" /\ phase = "written") =>
              wire = IntBytes(Len(value), PrefixOf(ty).w, byte_order)
                     \o ElementsOnly(value, byte_order))
        /\ ((phase = "done" /\ result.ok) =>
              /\ Len(result.val) = CountRead
              /\ rpos = PrefixOf(ty).w + 2 * CountRead
              /\ ElementsOnly(result.val, byte_order) = SubSeq(wire, PrefixOf(ty).w + 1, rpos))
        /\ ((phase = "done" /\ Len(wire) >= PrefixOf(ty).w /\ CountIsValid
                /\ (Len(wire) - PrefixOf(ty).w) \div 2 >= CountRead) => result.ok)
        /\ ((phase = "done" /\ origin = "value") => (result.ok /\ result.val = value))

C16_Witness ==
    /\ ty = VecS(PrefixType(1, FALSE), U16)
    /\ origin = "value"
    /\ byte_order = "BigEndian"
    /\ phase = "done"
    /\ value = <<258, 1>>
    /\ wire = <<2, 1, 2, 0, 1>>
    /\ result.ok
    /\ result.val = value

\* C17: writing a self-prefixed sequence whose element count does not fit
\* the prefix integer type S fails with the IntegerConversion error before
\* any byte (prefix or element) is written to the stream; reading a count
\* that does not fit usize fails with the same error before any element is
\* read (whatever follows the count, elements or the end of the input).
C17_CountMustFit ==
    /\ (IsSequence /\ origin = "value" /\ phase # "write"
            /\ PrefixOf(ty).w = 1 /\ Len(value) > MaxCount(PrefixOf(ty))) =>
          /\ phase = "wfail"
          /\ result = RErr("IntegerConversion", 0)
          /\ wire = <<>>
    /\ (ty = LongList /\ origin = "value" /\ hints.idx >= 2 /\ Len(value[2]) > 127) =>
          /\ phase = "wfail"
          /\ result = RErr("IntegerConversion", 0)
          /\ wire = <<value[1]>>
    /\ (IsSequence /\ phase = "done" /\ Len(wire) >= PrefixOf(ty).w /\ ~CountIsValid) =>
          /\ result = RErr("IntegerConversion", 0)
          /\ rpos = 0
    /\ (ty = LongList /\ phase = "done" /\ Len(wire) >= 2 /\ wire[2] > 127) =>
          /\ result = RErr("IntegerConversion", 0)
          /\ acc = <<wire[1]>>
          /\ rpos = 1

C17_Witness ==
    /\ ty = VecS(PrefixType(1, TRUE), U16)
    /\ origin = "value"
    /\ phase = "wfail"
    /\ Len(value) = 128
    /\ wire = <<>>
    /\ result.err = "IntegerConversion"

\* the bytes b are the map m (of u16 keys and bool values) as t writes it:
\* the entry count in 32 bits, then one key and its value per entry, in
\* the order t iterates them
MapLayout(t, m, b, ord) ==
    /\ Len(b) = 4 + 3 * Cardinality(DOMAIN m)
    /\ IntOf(SubSeq(b, 1, 4), ord) = Cardinality(DOMAIN m)
    /\ \A i \in 1..Cardinality(DOMAIN m) :
          /\ IntOf(SubSeq(b, 3 * i + 2, 3 * i + 3), ord) = MapIter(t, m)[i]
          /\ b[3 * i + 4] = BoolByte(m[MapIter(t, m)[i]])

\* the map field of MapField is being processed under a length descriptor
MapUnderDescriptor ==
    /\ ty = MapField
    /\ AtField
    /\ hints.idx = 1
    /\ current_field_length(FieldHints).kind # "None"

\* C19: a map is always written as its entry count (32-bit) followed by
\* that many key/value pairs (key then value), regardless of any length
\* descriptor in the hints, and reading that encoding returns a map equal
\* to the original whatever order the writer iterated the entries in.
C19_MapEncoding ==
    /\ ((ty.k = "map" /\ origin = "value" /\ phase = "written") =>
          /\ MapLayout(ty, value, wire, byte_order)
          /\ from_bytes(MapOf(U16, Bool, "asc"), wire, byte_order) = ROk(value, Len(wire))
          /\ from_bytes(MapOf(U16, Bool, "desc"), wire, byte_order) = ROk(value, Len(wire)))
    /\ ((ty.k = "map" /\ origin = "value" /\ phase = "done") =>
          (result.ok /\ result.val = value /\ rpos = Len(wire)))
    /\ ((ty = MapField /\ phase \in {"write", "read"} /\ hints.idx = 1) =>
          MapUnderDescriptor)
    /\ ((MapUnderDescriptor /\ origin = "value" /\ phase = "write") =>
          /\ CurrentWrite.ok
          /\ MapLayout(CurrentField.ty, value[2], CurrentWrite.bytes, byte_order))
    /\ ((MapUnderDescriptor /\ phase = "read" /\ CurrentRead.ok) =>
          /\ Cardinality(DOMAIN CurrentRead.val) <= IntOf(SubSeq(wire, 2, 5), byte_order)
          /\ CurrentRead.pos = 5 + 3 * IntOf(SubSeq(wire, 2, 5), byte_order))
    /\ ((ty = MapField /\ origin = "value" /\ phase \in {"written", "read", "done"}) =>
          /\ wire[1] = value[1]
          /\ MapLayout(ty.fields[2].ty, value[2], SubSeq(wire, 2, Len(wire)), byte_order))
    /\ ((ty = MapField /\ origin = "value" /\ phase = "done") =>
          (result.ok /\ result.val = value))

C19_Witness ==
    /\ ty = MapField
    /\ origin = "value"
    /\ byte_order = "BigEndian"
    /\ phase = "done"
    /\ DOMAIN value[2] = {1, 258}
    /\ value[2][1]
    /\ ~value[2][258]
    /\ value[1] = 0
    /\ wire = <<0, 0, 0, 0, 2, 1, 2, 0, 0, 1, 1>>
    /\ result.ok
    /\ result.val = value

\* every step of a pass over an aggregate processes the field the cursor
\* is at, and moves the cursor to the next field
C26_Step ==
    /\ ((phase = "write" /\ AtField) =>
          /\ hints'.idx = hints.idx + 1
          /\ (CurrentWrite.ok => (phase' = "write" /\ wire' = wire \o CurrentWrite.bytes)))
    /\ ((phase = "read" /\ AtField) =>
          /\ hints'.idx = hints.idx + 1
          /\ (CurrentRead.ok =>
                (phase' = "read" /\ acc' = Append(acc, CurrentRead.val)
                   /\ rpos' = CurrentRead.pos)))

\* while the cursor is at field i (0-based) exactly the fields before it
\* have been written, or read, in declaration order
C26_Completed ==
    /\ ((IsStruct /\ phase = "write") =>
          /\ hints.idx \in 0..Len(ty.fields)
          /\ wire = FirstFieldsWritten(hints.idx).bytes)
    /\ ((IsStruct /\ phase = "read") =>
          /\ hints.idx \in 0..Len(ty.fields)
          /\ Len(acc) = hints.idx
          /\ ((origin = "value" /\ (ty = MapField \/ Consistent(ty, value))) =>
                (acc = SubSeq(value, 1, hints.idx)
                   /\ rpos = Len(FirstFieldsWritten(hints.idx).bytes))))

\* C26: the fields of an aggregate are processed in declaration order, one
\* at a time, and in the same order on read as on write - field i+1 is
\* never read or written before field i has completed.
C26_DeclarationOrder == [](C26_Completed) /\ [][C26_Step]_vars

C26_Witness ==
    /\ ty = WithBits
    /\ origin = "value"
    /\ phase = "read"
    /\ hints.idx = 2
    /\ acc = SubSeq(value, 1, 2)
    /\ Len(wire) > rpos

----------------------------------------------------------------------------
(* Properties of the variant table specification (SpecTable).              *)

\* C15: within one internally tagged union, no two variants map to the
\* same discriminant value, for every mix of explicit (attribute-declared)
\* and implicit (auto-assigned) discriminants; consequently every
\* discriminant read from the stream resolves to at most one variant.
C15_UniqueDiscriminants ==
    /\ \A k1 \in 1..Len(ty.variants) : \A k2 \in 1..Len(ty.variants) :
          k1 # k2 => DiscriminantOf(ty.variants, k1) # DiscriminantOf(ty.variants, k2)
    /\ (tag.raw # -1 => Cardinality(VariantsOf(ty.variants, tag.raw)) <= 1)
    /\ ((origin = "value" /\ phase = "done" /\ result.ok) =>
          result.val.variant = value.variant)

----------------------------------------------------------------------------
(* Properties of the bit-field specification (SpecBits).                   *)

\* the bits of the buffer read, the flag at its head and the inner value's
\* width in bits
WireBits == BitsOfBytes(wire, byte_order)
FlagRead == ValueOfBits(SubSeq(WireBits, 1, FlagWidth(ty)), byte_order) # 0
InnerBits == 8 * Width(ty.e)

\* the bits an Option value is written as: the flag, then the value's own
\* bits if there is a value
OptionBits(t, v, ord) ==
    BitsOfValue(IF v = <<>> THEN 0 ELSE 1, FlagWidth(t), ord)
    \o (IF v = <<>> THEN <<>> ELSE BitsOfValue(v[1], 8 * Width(t.e), ord))

\* C18: optional value encoding - an Option is written as one presence
\* flag (a boolean, or a bit-field of the declared width in the bit-field
\* variant) followed by the inner value's encoding if and only if the
\* value is present; reading yields None after a false flag without
\* consuming anything further, and Some(v) after a true flag, with v read
\* immediately after the flag bits (no byte alignment in between).
C18_OptionEncoding ==
    /\ ((origin = "value" /\ phase = "written") =>
          /\ wire = PackBits(byte_align(OptionBits(ty, value, byte_order)), byte_order)
          /\ (ty.k = "opt" => wire = bytes(ty, value, byte_order).bytes)
          /\ ((ty = OptBits(U8, 1) /\ byte_order = "BigEndian") =>
                /\ (value = <<5>> => wire = <<130, 128>>)
                /\ (value = <<>> => wire = <<0>>))
          /\ ((ty = OptOf(U8) /\ byte_order = "BigEndian") =>
                /\ (value = <<5>> => wire = <<1, 5>>)
                /\ (value = <<>> => wire = <<0>>)))
    /\ (phase = "done" =>
          /\ (Len(WireBits) < FlagWidth(ty) => (~result.ok /\ result.err = "Io"))
          /\ ((Len(WireBits) >= FlagWidth(ty) /\ ~FlagRead) =>
                (result = ROk(<<>>, FlagWidth(ty)) /\ rpos = FlagWidth(ty)))
          /\ ((Len(WireBits) >= FlagWidth(ty) /\ FlagRead
                  /\ Len(WireBits) < FlagWidth(ty) + InnerBits) =>
                (~result.ok /\ result.err = "Io"))
          /\ ((Len(WireBits) >= FlagWidth(ty) + InnerBits /\ FlagRead) =>
                /\ result.ok
                /\ result.val = <<ValueOfBits(SubSeq(WireBits, FlagWidth(ty) + 1,
                                                     FlagWidth(ty) + InnerBits), byte_order)>>
                /\ rpos = FlagWidth(ty) + InnerBits)
          /\ (origin = "value" => (result.ok /\ result.val = value))
          /\ (ty.k = "opt" =>
                /\ result.ok = from_bytes(ty, wire, byte_order).ok
                /\ result.val = from_bytes(ty, wire, byte_order).val)
          /\ ((ty = OptBits(U8, 1) /\ byte_order = "BigEndian") =>
                /\ (wire = <<130, 128>> => (result.ok /\ result.val = <<5>>))
                /\ (wire = <<0>> => (result.ok /\ result.val = <<>>))))

C18_Witness ==
    /\ ty = OptBits(U8, 1)
    /\ origin = "value"
    /\ byte_order = "BigEndian"
    /\ phase = "done"
    /\ value = <<5>>
    /\ wire = <<130, 128>>
    /\ result.ok
    /\ result.val = <<5>>
    /\ rpos = 9

\* the bits the value's write put in the writer
BitsWritten == Len(acc)

\* C24: the byte-encoding entry point (to_bytes / bytes) always returns a
\* whole number of bytes - after the value is written, the bit writer is
\* byte-aligned, so when the value's encoding ends mid-byte the remaining
\* bits of the last byte are zero, and when the write fails no buffer is
\* returned.
C24_WholeBytes ==
    /\ ((origin = "value" /\ phase = "written") =>
          /\ (IsInt(ty.e) => acc = OptionBits(ty, value, byte_order))
          /\ Len(wire) = (BitsWritten + 7) \div 8
          /\ SubSeq(BitsOfBytes(wire, byte_order), 1, BitsWritten) = acc
          /\ \A i \in (BitsWritten + 1)..(8 * Len(wire)) :
                BitsOfBytes(wire, byte_order)[i] = 0
          /\ ((ty = OptBits(U8, 1) /\ byte_order = "BigEndian" /\ value = <<5>>) =>
                wire = <<130, 128>>)
          /\ ((ty = OptBits(U8, 1) /\ byte_order = "BigEndian" /\ value = <<>>) =>
                wire = <<0>>))
    /\ ((origin = "value" /\ value # <<>> /\ ~Write(ty.e, value[1], byte_order).ok
            /\ phase \notin {"wflag", "wsome"}) =>
          /\ phase = "wfail"
          /\ wire = <<>>
          /\ ~result.ok
          /\ result.err = Write(ty.e, value[1], byte_order).err)
    /\ (phase = "wfail" => (wire = <<>> /\ ~result.ok /\ result.err = "IntegerConversion"))

C24_Witness ==
    /\ ty = OptBits(U8, 3)
    /\ origin = "value"
    /\ byte_order = "BigEndian"
    /\ phase = "written"
    /\ value = <<5>>
    /\ BitsWritten = 11
    /\ wire = <<32, 160>>

----------------------------------------------------------------------------
(* Properties of the external tagging specification (SpecTagged).          *)

IsString == ty.k \in {"strtag", "strflex", "str"}
\* the number of bytes the string is told to have: the caller's tag, the
\* count at the head of the buffer, or whatever the buffer holds
StringCount ==
    CASE ty.k = "strtag" -> tag.raw
      [] ty.k = "str" -> IF Len(wire) >= 4 THEN IntOf(SubSeq(wire, 1, 4), byte_order) ELSE -1
      [] OTHER -> Len(wire)
StringStart == IF ty.k = "str" THEN 4 ELSE 0
\* the buffer holds that many bytes, and the bytes themselves
HasStringBytes == StringCount >= 0 /\ Len(wire) >= StringStart /\ StringCount <= Len(wire) - StringStart
StringBytes == SubSeq(wire, StringStart + 1, StringStart + StringCount)

\* C21: reading a string (externally length-tagged, length-prefixed, or
\* flexible/trailing) whose bytes are not valid UTF-8 fails with the Utf8
\* error and returns no string; when the bytes are valid UTF-8 the
\* returned string has exactly those bytes.
C21_Utf8 ==
    IsString =>
        /\ ((phase = "done" /\ HasStringBytes /\ from_utf8_ok(StringBytes)) =>
              result = ROk(StringBytes, StringStart + StringCount))
        /\ ((phase = "done" /\ HasStringBytes /\ ~from_utf8_ok(StringBytes)) =>
              (~result.ok /\ result.err = "Utf8" /\ result.val = <<>>))
        /\ ((phase = "done" /\ HasStringBytes
                /\ StringBytes \in {<<128>>, <<195>>, <<97, 128>>, <<169, 195>>, <<195, 97>>,
                                    <<195, 169, 169>>}) =>
              (~result.ok /\ result.err = "Utf8"))
        /\ ((phase = "done" /\ HasStringBytes
                /\ StringBytes \in {<<>>, <<97>>, <<195, 169>>, <<97, 195, 169>>,
                                    <<195, 169, 97>>}) =>
              (result.ok /\ result.val = StringBytes))
        /\ ((phase = "done" /\ ty = Str) => result = from_bytes(Str, wire, byte_order))
        /\ ((phase = "done" /\ origin = "value") => (result.ok /\ result.val = value))

C21_Witness ==
    /\ ty = StrTagged
    /\ origin = "raw"
    /\ phase = "done"
    /\ tag.raw = 2
    /\ wire = <<97, 128, 97>>
    /\ acc = <<97, 128>>
    /\ ~result.ok
    /\ result.err = "Utf8"

\* the read takes its tag from the caller, and the type the tag is
\* converted to holds it: usize for a string's length, the union's
\* discriminant type (of dw bytes) for a union
IsExternallyTagged == ty.k \in {"strtag", "tagged"}
TagFits ==
    /\ tag.raw >= 0
    /\ ((ty.k = "tagged" /\ ty.e.dw = 1) => tag.raw <= 255)

\* C22: external tagging - when the caller-supplied tag cannot be
\* converted to the target discriminant/length type, the read fails with
\* the TagConversion error (Error::TagConvert) and returns no value.
C22_TagConversion ==
    (IsExternallyTagged /\ phase = "done") =>
        /\ (~TagFits =>
              /\ result = RErr("TagConvert", 0)
              /\ rpos = 0
              /\ acc = <<>>
              /\ dstate = "Unresolved")
        /\ (TagFits => (result.err # "TagConvert" /\ dstate # "Unresolved"))
        /\ (origin = "value" => (result.ok /\ result.val = value))

C22_Witness ==
    /\ ty = Tagged(WithCustomRepr)
    /\ origin = "raw"
    /\ phase = "done"
    /\ tag.raw = 256
    /\ ~result.ok
    /\ result.err = "TagConvert"

----------------------------------------------------------------------------
(* Properties of the string-tagged union specification (SpecNames).        *)

\* the tag of the variant written: its discriminant attribute's string if
\* it has one, its own name otherwise
TagWritten ==
    IF ty = RenamedVariant /\ value.variant = 2 THEN NameUniverse
    ELSE ty.variants[value.variant].name
\* the encoding of the fields of the variant written
FieldsWritten ==
    WriteFields(ty.variants[value.variant].named, ty.variants[value.variant].fields,
                value.fields, 0, begin_fields(DefaultHints), byte_order).bytes

\* C25: string-tagged unions - a variant with no explicit discriminant is
\* tagged with its own name, and a variant with an explicit discriminant
\* attribute is tagged with that string instead of its name; the tag is
\* written as a length-prefixed string (32-bit count, then the name's
\* bytes) before the variant's fields, and reading that encoding resolves
\* to the same variant.
C25_StringTags ==
    /\ ((origin = "value" /\ phase \in {"written", "read", "resolve", "rfields", "done"}) =>
          /\ wire = IntBytes(Len(TagWritten), 4, byte_order) \o TagWritten \o FieldsWritten
          /\ ((byte_order = "BigEndian" /\ ty = Axis /\ value.variant = 1) =>
                wire = <<0, 0, 0, 1, 88>>)
          /\ ((byte_order = "BigEndian" /\ ty = Axis /\ value.variant = 3
                  /\ value.fields = <<(<<97, 98>>)>>) =>
                wire = <<0, 0, 0, 5, 79, 116, 104, 101, 114, 0, 0, 0, 2, 97, 98>>)
          /\ ((byte_order = "BigEndian" /\ ty = RenamedVariant /\ value.variant = 1) =>
                wire = <<0, 0, 0, 5, 72, 101, 108, 108, 111>>)
          /\ ((byte_order = "BigEndian" /\ ty = RenamedVariant /\ value.variant = 2) =>
                wire = <<0, 0, 0, 8, 85, 110, 105, 118, 101, 114, 115, 101>>))
    /\ ((origin = "value" /\ phase \in {"rfields", "done"}) =>
          (tag.variant = value.variant /\ acc = TagWritten))
    /\ ((origin = "value" /\ phase = "done") =>
          (result.ok /\ result.val = value /\ rpos = Len(wire)))
    /\ ((ty = RenamedVariant /\ phase = "done" /\ acc = NameWorld) =>
          (~result.ok /\ result.err = "UnknownDiscriminant"))

C25_Witness ==
    /\ ty = RenamedVariant
    /\ origin = "value"
    /\ byte_order = "BigEndian"
    /\ phase = "done"
    /\ value.variant = 2
    /\ wire = <<0, 0, 0, 8, 85, 110, 105, 118, 101, 114, 115, 101>>
    /\ result.ok
    /\ result.val.variant = 2

----------------------------------------------------------------------------
(* Properties of the datagram specification (SpecDgram).                   *)

\* the middleware's decode inverts its encode
Inverts(p) == \A b \in 0..255 : decode_pipeline(p, 1, encode_pipeline(p, 1, <<b>>)) = <<b>>
\* send_to has returned Ok for the packet
SendReturnedOk == origin = "value" /\ phase \in {"sent", "decode", "parse", "done"}
\* the middleware-encoded packet
EncodedPacket == encode_pipeline(mw.pipeline, 1, bytes(ty, value, byte_order).bytes)

\* C23: datagram framing round-trip - for every packet p and every
\* middleware whose decode inverts its encode, receive_from applied to a
\* buffer holding exactly the bytes produced by send_to(p) reads the whole
\* buffer, decodes it through the middleware and returns p; an error from
\* the middleware or from parsing is returned to the caller and no packet
\* is returned.
C23_DatagramRoundTrip ==
    /\ ((SendReturnedOk /\ phase = "done" /\ Inverts(mw.pipeline)) =>
          /\ rpos = Len(wire)
          /\ result.ok
          /\ result.val = value)
    /\ ((phase = "done" /\ ~Read(ty, decode_pipeline(mw.pipeline, 1, wire), 0, byte_order).ok) =>
          /\ ~result.ok
          /\ result.val = <<>>
          /\ result.err = Read(ty, decode_pipeline(mw.pipeline, 1, wire), 0, byte_order).err)

\* C27: whenever send_to returns Ok, every byte of the middleware-encoded
\* packet has been written to the sink, in order, including when the sink
\* accepts fewer bytes than offered in a single write call.
C27_SendToWritesAll == SendReturnedOk => wire = EncodedPacket

-----------------------------------------------------------------------------
(* Properties of the read-back loop specification (SpecLoopFair).          *)

\* C28: reading a sequence under a Bytes-kind descriptor terminates for
\* every input and every element type - once the loop over the bytes read
\* back is entered it is eventually left, with the items or with a failure,
\* also when the element type reads zero bits and the byte budget is
\* greater than zero.
C28_BytesLoopTerminates == (phase = "loop") ~> (phase = "done")

-----------------------------------------------------------------------------
(* Properties of from_bytes over buffers of a peer (Spec).                 *)

\* the first n bytes of the buffer
WirePrefix(n) == SubSeq(wire, 1, n)
\* the lengths n at which the first n bytes are exactly the encoding of a
\* value: from_bytes of them succeeds and consumes all n
ValidPrefixes ==
    {n \in 0..Len(wire) : /\ from_bytes(ty, WirePrefix(n), byte_order).ok
                          /\ from_bytes(ty, WirePrefix(n), byte_order).pos = n}

\* C29: from_bytes does not require the input to be fully consumed - if a
\* prefix of the slice is a valid encoding of a value, from_bytes returns
\* that value, stops after the prefix and ignores every trailing byte, so
\* inputs sharing that prefix decode to the same value.
C29_TrailingBytesIgnored ==
    phase = "done" =>
        \A n \in ValidPrefixes :
            /\ result.ok
            /\ result.val = from_bytes(ty, WirePrefix(n), byte_order).val
            /\ rpos = n
            /\ \A b \in RawBytes :
                  /\ from_bytes(ty, Append(WirePrefix(n), b), byte_order).ok
                  /\ from_bytes(ty, Append(WirePrefix(n), b), byte_order).val = result.val

\* from_bytes returned a value from a buffer of a peer and left bytes of it
\* unread
C29_Witness ==
    /\ phase = "done"
    /\ origin = "raw"
    /\ result.ok
    /\ rpos \in ValidPrefixes
    /\ rpos < Len(wire)

-----------------------------------------------------------------------------
(* Properties of the nested sequence specification (SpecNested).           *)

\* the rows from the i-th on, each as the plain contract encodes it: its
\* own 32-bit count, then its bytes
RECURSIVE RowsBytes(_, _, _)
RowsBytes(rows, i, ord) ==
    IF i > Len(rows) THEN <<>>
    ELSE IntBytes(Len(rows[i]), 4, ord) \o rows[i] \o RowsBytes(rows, i + 1, ord)

\* the bytes before the rows: the source field of the aggregate, or the
\* sequence's own count
RowsHeader ==
    IF IsStruct THEN <<value[1]>> ELSE IntBytes(Len(value), 4, byte_order)
RowsWritten == IF IsStruct THEN value[2] ELSE value
RowsRead == IF IsStruct THEN result.val[2] ELSE result.val
RowsStart == IF IsStruct THEN 1 ELSE 4

\* C30: a length descriptor in effect for a collection field applies to
\* that collection only - the outer sequence's own count is omitted under a
\* descriptor, but every element is written and read through the plain
\* contract: each inner sequence carries its own count prefix on the wire
\* and is read back through it, whatever the outer field's descriptor is.
C30_ElementsPlain ==
    /\ ((origin = "value" /\ phase \in {"written", "read", "done"}) =>
          wire = RowsHeader \o RowsBytes(RowsWritten, 1, byte_order))
    /\ ((phase = "done" /\ result.ok) =>
          /\ SubSeq(wire, RowsStart + 1, rpos) = RowsBytes(RowsRead, 1, byte_order)
          /\ (ty = NestedByElements => Len(RowsRead) = result.val[1])
          /\ (ty = NestedByBytes => rpos - 1 = result.val[1]))

\* two rows that are not empty were written and read back under an
\* Elements descriptor
C30_Witness ==
    /\ phase = "done"
    /\ origin = "value"
    /\ ty = NestedByElements
    /\ result.ok
    /\ Len(RowsRead) = 2
    /\ \A i \in 1..2 : Len(RowsRead[i]) >= 1
====
